---- MODULE Spec2Model ----
(***************************************************************************)
(* The two 3LO sample agents (Google Calendar, GitHub): the module-level   *)
(* StreamingQueue, the background agent_task with its authorization retry, *)
(* the shared access-token slot, the provider tool, and the streaming      *)
(* entrypoint agent_invocation, under asyncio's cooperative scheduling.    *)
(*                                                                         *)
(* A coroutine runs until it suspends.  asyncio.Queue.put on an unbounded  *)
(* queue never suspends and agent(...) is a synchronous call, so the task  *)
(* keeps the event loop from its first statement up to the OAuth helper    *)
(* (network I/O) and, after it, up to its end.  The variable running holds *)
(* the request whose task currently owns the event loop (0: the loop is    *)
(* free to pick any ready coroutine).                                      *)
(***************************************************************************)
EXTENDS Naturals, Sequences, FiniteSets

\* ---------------------------------------------------------------- bounds
MaxRequests == 2
MaxPuts == 2

Requests == 1..MaxRequests

\* ---------------------------------------------------------------- values
\* Every value that travels through the queue has the same record shape, so
\* that any two of them can be compared.
Str(s) == [tag |-> "str", text |-> s, arg |-> "", content |-> <<>>, repr |-> <<>>]
\* f"{prefix}{str(x)}"
Fmt(prefix, x) == [tag |-> "str", text |-> prefix, arg |-> x, content |-> <<>>, repr |-> <<>>]
\* Python's None
None == [tag |-> "none", text |-> "", arg |-> "", content |-> <<>>, repr |-> <<>>]
\* response.message as a dict with a 'content' list; a block is
\* [has_text, text]: has_text says whether the block has a 'text' key
DictMessage(content) ==
    [tag |-> "dict", text |-> "", arg |-> "", content |-> content, repr |-> <<>>]
\* response.message that is not a dict; repr is str(response.message)
OtherMessage(repr) ==
    [tag |-> "other", text |-> "", arg |-> "", content |-> <<>>, repr |-> repr]

\* response.message as a dict whose 'content' is not a list; repr is
\* str(response.message)
DictOtherContent(repr) ==
    [tag |-> "dict_other", text |-> "", arg |-> "", content |-> <<>>, repr |-> repr]

TextBlock(chars) == [has_text |-> TRUE, text |-> chars]
ToolUseBlock == [has_text |-> FALSE, text |-> <<>>]

\* The responses the agent can come back with.
MsgDone == DictMessage(<<ToolUseBlock, TextBlock(<<"D","o","n","e">>)>>)
MsgSignIn == DictMessage(<<TextBlock(<<"P","l","e","a","s","e"," ","S","i">>),
                           TextBlock(<<"g","n"," ","I","n">>)>>)
Messages == {MsgDone, MsgSignIn}

\* The tokens an OAuth exchange can return; NoToken is the slot's None.
NoToken == "<None>"
Tokens == {"tokA", "tokB"}

\* Messages of the exceptions the agent and the OAuth helper can raise.
AgentErrors == {"agent down"}
AuthErrors == {"consent denied"}

Scripts == {"google", "github"}

\* A StreamingQueue driven by a plain producer (put ..., then finish) in
\* place of agent_task: the items it may be given, None among them.
PlainProducer == "producer"
PlanItems == {Str("a"), Str("b"), None}
Plans == UNION {[1..n -> PlanItems] : n \in 0..MaxPuts}

\* ------------------------------------------------ text: str.lower, "in"
\* A text is a sequence of characters.  An ASCII letter, digit, space or
\* one of !{}.,:;?-_() is written as itself, every other character by its
\* code point.  Case is
\* that of Python 3.11 (Unicode 14.0): the ASCII letters below and, for all
\* other characters, the tables that follow.
UpperCase == <<"A","B","C","D","E","F","G","H","I","J","K","L","M",
               "N","O","P","Q","R","S","T","U","V","W","X","Y","Z">>
LowerCase == <<"a","b","c","d","e","f","g","h","i","j","k","l","m",
               "n","o","p","q","r","s","t","u","v","w","x","y","z">>

\* c.lower(), c.upper() and c.title() of every character outside ASCII that
\* one of the three changes.
CaseTable ==
    { [c |-> "U+00B5", lower |-> <<"U+00B5">>, upper |-> <<"U+039C">>, title |-> <<"U+039C">>],
      [c |-> "U+00C0", lower |-> <<"U+00E0">>, upper |-> <<"U+00C0">>, title |-> <<"U+00C0">>],
      [c |-> "U+00C1", lower |-> <<"U+00E1">>, upper |-> <<"U+00C1">>, title |-> <<"U+00C1">>],
      [c |-> "U+00C2", lower |-> <<"U+00E2">>, upper |-> <<"U+00C2">>, title |-> <<"U+00C2">>],
      [c |-> "U+00C3", lower |-> <<"U+00E3">>, upper |-> <<"U+00C3">>, title |-> <<"U+00C3">>],
      [c |-> "U+00C4", lower |-> <<"U+00E4">>, upper |-> <<"U+00C4">>, title |-> <<"U+00C4">>],
      [c |-> "U+00C5", lower |-> <<"U+00E5">>, upper |-> <<"U+00C5">>, title |-> <<"U+00C5">>],
      [c |-> "U+00C6", lower |-> <<"U+00E6">>, upper |-> <<"U+00C6">>, title |-> <<"U+00C6">>],
      [c |-> "U+00C7", lower |-> <<"U+00E7">>, upper |-> <<"U+00C7">>, title |-> <<"U+00C7">>],
      [c |-> "U+00C8", lower |-> <<"U+00E8">>, upper |-> <<"U+00C8">>, title |-> <<"U+00C8">>],
      [c |-> "U+00C9", lower |-> <<"U+00E9">>, upper |-> <<"U+00C9">>, title |-> <<"U+00C9">>],
      [c |-> "U+00CA", lower |-> <<"U+00EA">>, upper |-> <<"U+00CA">>, title |-> <<"U+00CA">>],
      [c |-> "U+00CB", lower |-> <<"U+00EB">>, upper |-> <<"U+00CB">>, title |-> <<"U+00CB">>],
      [c |-> "U+00CC", lower |-> <<"U+00EC">>, upper |-> <<"U+00CC">>, title |-> <<"U+00CC">>],
      [c |-> "U+00CD", lower |-> <<"U+00ED">>, upper |-> <<"U+00CD">>, title |-> <<"U+00CD">>],
      [c |-> "U+00CE", lower |-> <<"U+00EE">>, upper |-> <<"U+00CE">>, title |-> <<"U+00CE">>],
      [c |-> "U+00CF", lower |-> <<"U+00EF">>, upper |-> <<"U+00CF">>, title |-> <<"U+00CF">>],
      [c |-> "U+00D0", lower |-> <<"U+00F0">>, upper |-> <<"U+00D0">>, title |-> <<"U+00D0">>],
      [c |-> "U+00D1", lower |-> <<"U+00F1">>, upper |-> <<"U+00D1">>, title |-> <<"U+00D1">>],
      [c |-> "U+00D2", lower |-> <<"U+00F2">>, upper |-> <<"U+00D2">>, title |-> <<"U+00D2">>],
      [c |-> "U+00D3", lower |-> <<"U+00F3">>, upper |-> <<"U+00D3">>, title |-> <<"U+00D3">>],
      [c |-> "U+00D4", lower |-> <<"U+00F4">>, upper |-> <<"U+00D4">>, title |-> <<"U+00D4">>],
      [c |-> "U+00D5", lower |-> <<"U+00F5">>, upper |-> <<"U+00D5">>, title |-> <<"U+00D5">>],
      [c |-> "U+00D6", lower |-> <<"U+00F6">>, upper |-> <<"U+00D6">>, title |-> <<"U+00D6">>],
      [c |-> "U+00D8", lower |-> <<"U+00F8">>, upper |-> <<"U+00D8">>, title |-> <<"U+00D8">>],
      [c |-> "U+00D9", lower |-> <<"U+00F9">>, upper |-> <<"U+00D9">>, title |-> <<"U+00D9">>],
      [c |-> "U+00DA", lower |-> <<"U+00FA">>, upper |-> <<"U+00DA">>, title |-> <<"U+00DA">>],
      [c |-> "U+00DB", lower |-> <<"U+00FB">>, upper |-> <<"U+00DB">>, title |-> <<"U+00DB">>],
      [c |-> "U+00DC", lower |-> <<"U+00FC">>, upper |-> <<"U+00DC">>, title |-> <<"U+00DC">>],
      [c |-> "U+00DD", lower |-> <<"U+00FD">>, upper |-> <<"U+00DD">>, title |-> <<"U+00DD">>],
      [c |-> "U+00DE", lower |-> <<"U+00FE">>, upper |-> <<"U+00DE">>, title |-> <<"U+00DE">>],
      [c |-> "U+00DF", lower |-> <<"U+00DF">>, upper |-> <<"S","S">>, title |-> <<"S","s">>],
      [c |-> "U+00E0", lower |-> <<"U+00E0">>, upper |-> <<"U+00C0">>, title |-> <<"U+00C0">>],
      [c |-> "U+00E1", lower |-> <<"U+00E1">>, upper |-> <<"U+00C1">>, title |-> <<"U+00C1">>],
      [c |-> "U+00E2", lower |-> <<"U+00E2">>, upper |-> <<"U+00C2">>, title |-> <<"U+00C2">>],
      [c |-> "U+00E3", lower |-> <<"U+00E3">>, upper |-> <<"U+00C3">>, title |-> <<"U+00C3">>],
      [c |-> "U+00E4", lower |-> <<"U+00E4">>, upper |-> <<"U+00C4">>, title |-> <<"U+00C4">>],
      [c |-> "U+00E5", lower |-> <<"U+00E5">>, upper |-> <<"U+00C5">>, title |-> <<"U+00C5">>],
      [c |-> "U+00E6", lower |-> <<"U+00E6">>, upper |-> <<"U+00C6">>, title |-> <<"U+00C6">>],
      [c |-> "U+00E7", lower |-> <<"U+00E7">>, upper |-> <<"U+00C7">>, title |-> <<"U+00C7">>],
      [c |-> "U+00E8", lower |-> <<"U+00E8">>, upper |-> <<"U+00C8">>, title |-> <<"U+00C8">>],
      [c |-> "U+00E9", lower |-> <<"U+00E9">>, upper |-> <<"U+00C9">>, title |-> <<"U+00C9">>],
      [c |-> "U+00EA", lower |-> <<"U+00EA">>, upper |-> <<"U+00CA">>, title |-> <<"U+00CA">>],
      [c |-> "U+00EB", lower |-> <<"U+00EB">>, upper |-> <<"U+00CB">>, title |-> <<"U+00CB">>],
      [c |-> "U+00EC", lower |-> <<"U+00EC">>, upper |-> <<"U+00CC">>, title |-> <<"U+00CC">>],
      [c |-> "U+00ED", lower |-> <<"U+00ED">>, upper |-> <<"U+00CD">>, title |-> <<"U+00CD">>],
      [c |-> "U+00EE", lower |-> <<"U+00EE">>, upper |-> <<"U+00CE">>, title |-> <<"U+00CE">>],
      [c |-> "U+00EF", lower |-> <<"U+00EF">>, upper |-> <<"U+00CF">>, title |-> <<"U+00CF">>],
      [c |-> "U+00F0", lower |-> <<"U+00F0">>, upper |-> <<"U+00D0">>, title |-> <<"U+00D0">>],
      [c |-> "U+00F1", lower |-> <<"U+00F1">>, upper |-> <<"U+00D1">>, title |-> <<"U+00D1">>],
      [c |-> "U+00F2", lower |-> <<"U+00F2">>, upper |-> <<"U+00D2">>, title |-> <<"U+00D2">>],
      [c |-> "U+00F3", lower |-> <<"U+00F3">>, upper |-> <<"U+00D3">>, title |-> <<"U+00D3">>],
      [c |-> "U+00F4", lower |-> <<"U+00F4">>, upper |-> <<"U+00D4">>, title |-> <<"U+00D4">>],
      [c |-> "U+00F5", lower |-> <<"U+00F5">>, upper |-> <<"U+00D5">>, title |-> <<"U+00D5">>],
      [c |-> "U+00F6", lower |-> <<"U+00F6">>, upper |-> <<"U+00D6">>, title |-> <<"U+00D6">>],
      [c |-> "U+00F8", lower |-> <<"U+00F8">>, upper |-> <<"U+00D8">>, title |-> <<"U+00D8">>],
      [c |-> "U+00F9", lower |-> <<"U+00F9">>, upper |-> <<"U+00D9">>, title |-> <<"U+00D9">>],
      [c |-> "U+00FA", lower |-> <<"U+00FA">>, upper |-> <<"U+00DA">>, title |-> <<"U+00DA">>],
      [c |-> "U+00FB", lower |-> <<"U+00FB">>, upper |-> <<"U+00DB">>, title |-> <<"U+00DB">>],
      [c |-> "U+00FC", lower |-> <<"U+00FC">>, upper |-> <<"U+00DC">>, title |-> <<"U+00DC">>],
      [c |-> "U+00FD", lower |-> <<"U+00FD">>, upper |-> <<"U+00DD">>, title |-> <<"U+00DD">>],
      [c |-> "U+00FE", lower |-> <<"U+00FE">>, upper |-> <<"U+00DE">>, title |-> <<"U+00DE">>],
      [c |-> "U+00FF", lower |-> <<"U+00FF">>, upper |-> <<"U+0178">>, title |-> <<"U+0178">>],
      [c |-> "U+0100", lower |-> <<"U+0101">>, upper |-> <<"U+0100">>, title |-> <<"U+0100">>],
      [c |-> "U+0101", lower |-> <<"U+0101">>, upper |-> <<"U+0100">>, title |-> <<"U+0100">>],
      [c |-> "U+0102", lower |-> <<"U+0103">>, upper |-> <<"U+0102">>, title |-> <<"U+0102">>],
      [c |-> "U+0103", lower |-> <<"U+0103">>, upper |-> <<"U+0102">>, title |-> <<"U+0102">>],
      [c |-> "U+0104", lower |-> <<"U+0105">>, upper |-> <<"U+0104">>, title |-> <<"U+0104">>],
      [c |-> "U+0105", lower |-> <<"U+0105">>, upper |-> <<"U+0104">>, title |-> <<"U+0104">>],
      [c |-> "U+0106", lower |-> <<"U+0107">>, upper |-> <<"U+0106">>, title |-> <<"U+0106">>],
      [c |-> "U+0107", lower |-> <<"U+0107">>, upper |-> <<"U+0106">>, title |-> <<"U+0106">>],
      [c |-> "U+0108", lower |-> <<"U+0109">>, upper |-> <<"U+0108">>, title |-> <<"U+0108">>],
      [c |-> "U+0109", lower |-> <<"U+0109">>, upper |-> <<"U+0108">>, title |-> <<"U+0108">>],
      [c |-> "U+010A", lower |-> <<"U+010B">>, upper |-> <<"U+010A">>, title |-> <<"U+010A">>],
      [c |-> "U+010B", lower |-> <<"U+010B">>, upper |-> <<"U+010A">>, title |-> <<"U+010A">>],
      [c |-> "U+010C", lower |-> <<"U+010D">>, upper |-> <<"U+010C">>, title |-> <<"U+010C">>],
      [c |-> "U+010D", lower |-> <<"U+010D">>, upper |-> <<"U+010C">>, title |-> <<"U+010C">>],
      [c |-> "U+010E", lower |-> <<"U+010F">>, upper |-> <<"U+010E">>, title |-> <<"U+010E">>],
      [c |-> "U+010F", lower |-> <<"U+010F">>, upper |-> <<"U+010E">>, title |-> <<"U+010E">>],
      [c |-> "U+0110", lower |-> <<"U+0111">>, upper |-> <<"U+0110">>, title |-> <<"U+0110">>],
      [c |-> "U+0111", lower |-> <<"U+0111">>, upper |-> <<"U+0110">>, title |-> <<"U+0110">>],
      [c |-> "U+0112", lower |-> <<"U+0113">>, upper |-> <<"U+0112">>, title |-> <<"U+0112">>],
      [c |-> "U+0113", lower |-> <<"U+0113">>, upper |-> <<"U+0112">>, title |-> <<"U+0112">>],
      [c |-> "U+0114", lower |-> <<"U+0115">>, upper |-> <<"U+0114">>, title |-> <<"U+0114">>],
      [c |-> "U+0115", lower |-> <<"U+0115">>, upper |-> <<"U+0114">>, title |-> <<"U+0114">>],
      [c |-> "U+0116", lower |-> <<"U+0117">>, upper |-> <<"U+0116">>, title |-> <<"U+0116">>],
      [c |-> "U+0117", lower |-> <<"U+0117">>, upper |-> <<"U+0116">>, title |-> <<"U+0116">>],
      [c |-> "U+0118", lower |-> <<"U+0119">>, upper |-> <<"U+0118">>, title |-> <<"U+0118">>],
      [c |-> "U+0119", lower |-> <<"U+0119">>, upper |-> <<"U+0118">>, title |-> <<"U+0118">>],
      [c |-> "U+011A", lower |-> <<"U+011B">>, upper |-> <<"U+011A">>, title |-> <<"U+011A">>],
      [c |-> "U+011B", lower |-> <<"U+011B">>, upper |-> <<"U+011A">>, title |-> <<"U+011A">>],
      [c |-> "U+011C", lower |-> <<"U+011D">>, upper |-> <<"U+011C">>, title |-> <<"U+011C">>],
      [c |-> "U+011D", lower |-> <<"U+011D">>, upper |-> <<"U+011C">>, title |-> <<"U+011C">>],
      [c |-> "U+011E", lower |-> <<"U+011F">>, upper |-> <<"U+011E">>, title |-> <<"U+011E">>],
      [c |-> "U+011F", lower |-> <<"U+011F">>, upper |-> <<"U+011E">>, title |-> <<"U+011E">>],
      [c |-> "U+0120", lower |-> <<"U+0121">>, upper |-> <<"U+0120">>, title |-> <<"U+0120">>],
      [c |-> "U+0121", lower |-> <<"U+0121">>, upper |-> <<"U+0120">>, title |-> <<"U+0120">>],
      [c |-> "U+0122", lower |-> <<"U+0123">>, upper |-> <<"U+0122">>, title |-> <<"U+0122">>],
      [c |-> "U+0123", lower |-> <<"U+0123">>, upper |-> <<"U+0122">>, title |-> <<"U+0122">>],
      [c |-> "U+0124", lower |-> <<"U+0125">>, upper |-> <<"U+0124">>, title |-> <<"U+0124">>],
      [c |-> "U+0125", lower |-> <<"U+0125">>, upper |-> <<"U+0124">>, title |-> <<"U+0124">>],
      [c |-> "U+0126", lower |-> <<"U+0127">>, upper |-> <<"U+0126">>, title |-> <<"U+0126">>],
      [c |-> "U+0127", lower |-> <<"U+0127">>, upper |-> <<"U+0126">>, title |-> <<"U+0126">>],
      [c |-> "U+0128", lower |-> <<"U+0129">>, upper |-> <<"U+0128">>, title |-> <<"U+0128">>],
      [c |-> "U+0129", lower |-> <<"U+0129">>, upper |-> <<"U+0128">>, title |-> <<"U+0128">>],
      [c |-> "U+012A", lower |-> <<"U+012B">>, upper |-> <<"U+012A">>, title |-> <<"U+012A">>],
      [c |-> "U+012B", lower |-> <<"U+012B">>, upper |-> <<"U+012A">>, title |-> <<"U+012A">>],
      [c |-> "U+012C", lower |-> <<"U+012D">>, upper |-> <<"U+012C">>, title |-> <<"U+012C">>],
      [c |-> "U+012D", lower |-> <<"U+012D">>, upper |-> <<"U+012C">>, title |-> <<"U+012C">>],
      [c |-> "U+012E", lower |-> <<"U+012F">>, upper |-> <<"U+012E">>, title |-> <<"U+012E">>],
      [c |-> "U+012F", lower |-> <<"U+012F">>, upper |-> <<"U+012E">>, title |-> <<"U+012E">>],
      [c |-> "U+0130", lower |-> <<"i","U+0307">>, upper |-> <<"U+0130">>, title |-> <<"U+0130">>],
      [c |-> "U+0131", lower |-> <<"U+0131">>, upper |-> <<"I">>, title |-> <<"I">>],
      [c |-> "U+0132", lower |-> <<"U+0133">>, upper |-> <<"U+0132">>, title |-> <<"U+0132">>],
      [c |-> "U+0133", lower |-> <<"U+0133">>, upper |-> <<"U+0132">>, title |-> <<"U+0132">>],
      [c |-> "U+0134", lower |-> <<"U+0135">>, upper |-> <<"U+0134">>, title |-> <<"U+0134">>],
      [c |-> "U+0135", lower |-> <<"U+0135">>, upper |-> <<"U+0134">>, title |-> <<"U+0134">>],
      [c |-> "U+0136", lower |-> <<"U+0137">>, upper |-> <<"U+0136">>, title |-> <<"U+0136">>],
      [c |-> "U+0137", lower |-> <<"U+0137">>, upper |-> <<"U+0136">>, title |-> <<"U+0136">>],
      [c |-> "U+0139", lower |-> <<"U+013A">>, upper |-> <<"U+0139">>, title |-> <<"U+0139">>],
      [c |-> "U+013A", lower |-> <<"U+013A">>, upper |-> <<"U+0139">>, title |-> <<"U+0139">>],
      [c |-> "U+013B", lower |-> <<"U+013C">>, upper |-> <<"U+013B">>, title |-> <<"U+013B">>],
      [c |-> "U+013C", lower |-> <<"U+013C">>, upper |-> <<"U+013B">>, title |-> <<"U+013B">>],
      [c |-> "U+013D", lower |-> <<"U+013E">>, upper |-> <<"U+013D">>, title |-> <<"U+013D">>],
      [c |-> "U+013E", lower |-> <<"U+013E">>, upper |-> <<"U+013D">>, title |-> <<"U+013D">>],
      [c |-> "U+013F", lower |-> <<"U+0140">>, upper |-> <<"U+013F">>, title |-> <<"U+013F">>],
      [c |-> "U+0140", lower |-> <<"U+0140">>, upper |-> <<"U+013F">>, title |-> <<"U+013F">>],
      [c |-> "U+0141", lower |-> <<"U+0142">>, upper |-> <<"U+0141">>, title |-> <<"U+0141">>],
      [c |-> "U+0142", lower |-> <<"U+0142">>, upper |-> <<"U+0141">>, title |-> <<"U+0141">>],
      [c |-> "U+0143", lower |-> <<"U+0144">>, upper |-> <<"U+0143">>, title |-> <<"U+0143">>],
      [c |-> "U+0144", lower |-> <<"U+0144">>, upper |-> <<"U+0143">>, title |-> <<"U+0143">>],
      [c |-> "U+0145", lower |-> <<"U+0146">>, upper |-> <<"U+0145">>, title |-> <<"U+0145">>],
      [c |-> "U+0146", lower |-> <<"U+0146">>, upper |-> <<"U+0145">>, title |-> <<"U+0145">>],
      [c |-> "U+0147", lower |-> <<"U+0148">>, upper |-> <<"U+0147">>, title |-> <<"U+0147">>],
      [c |-> "U+0148", lower |-> <<"U+0148">>, upper |-> <<"U+0147">>, title |-> <<"U+0147">>],
      [c |-> "U+0149", lower |-> <<"U+0149">>, upper |-> <<"U+02BC","N">>, title |-> <<"U+02BC","N">>],
      [c |-> "U+014A", lower |-> <<"U+014B">>, upper |-> <<"U+014A">>, title |-> <<"U+014A">>],
      [c |-> "U+014B", lower |-> <<"U+014B">>, upper |-> <<"U+014A">>, title |-> <<"U+014A">>],
      [c |-> "U+014C", lower |-> <<"U+014D">>, upper |-> <<"U+014C">>, title |-> <<"U+014C">>],
      [c |-> "U+014D", lower |-> <<"U+014D">>, upper |-> <<"U+014C">>, title |-> <<"U+014C">>],
      [c |-> "U+014E", lower |-> <<"U+014F">>, upper |-> <<"U+014E">>, title |-> <<"U+014E">>],
      [c |-> "U+014F", lower |-> <<"U+014F">>, upper |-> <<"U+014E">>, title |-> <<"U+014E">>],
      [c |-> "U+0150", lower |-> <<"U+0151">>, upper |-> <<"U+0150">>, title |-> <<"U+0150">>],
      [c |-> "U+0151", lower |-> <<"U+0151">>, upper |-> <<"U+0150">>, title |-> <<"U+0150">>],
      [c |-> "U+0152", lower |-> <<"U+0153">>, upper |-> <<"U+0152">>, title |-> <<"U+0152">>],
      [c |-> "U+0153", lower |-> <<"U+0153">>, upper |-> <<"U+0152">>, title |-> <<"U+0152">>],
      [c |-> "U+0154", lower |-> <<"U+0155">>, upper |-> <<"U+0154">>, title |-> <<"U+0154">>],
      [c |-> "U+0155", lower |-> <<"U+0155">>, upper |-> <<"U+0154">>, title |-> <<"U+0154">>],
      [c |-> "U+0156", lower |-> <<"U+0157">>, upper |-> <<"U+0156">>, title |-> <<"U+0156">>],
      [c |-> "U+0157", lower |-> <<"U+0157">>, upper |-> <<"U+0156">>, title |-> <<"U+0156">>],
      [c |-> "U+0158", lower |-> <<"U+0159">>, upper |-> <<"U+0158">>, title |-> <<"U+0158">>],
      [c |-> "U+0159", lower |-> <<"U+0159">>, upper |-> <<"U+0158">>, title |-> <<"U+0158">>],
      [c |-> "U+015A", lower |-> <<"U+015B">>, upper |-> <<"U+015A">>, title |-> <<"U+015A">>],
      [c |-> "U+015B", lower |-> <<"U+015B">>, upper |-> <<"U+015A">>, title |-> <<"U+015A">>],
      [c |-> "U+015C", lower |-> <<"U+015D">>, upper |-> <<"U+015C">>, title |-> <<"U+015C">>],
      [c |-> "U+015D", lower |-> <<"U+015D">>, upper |-> <<"U+015C">>, title |-> <<"U+015C">>],
      [c |-> "U+015E", lower |-> <<"U+015F">>, upper |-> <<"U+015E">>, title |-> <<"U+015E">>],
      [c |-> "U+015F", lower |-> <<"U+015F">>, upper |-> <<"U+015E">>, title |-> <<"U+015E">>],
      [c |-> "U+0160", lower |-> <<"U+0161">>, upper |-> <<"U+0160">>, title |-> <<"U+0160">>],
      [c |-> "U+0161", lower |-> <<"U+0161">>, upper |-> <<"U+0160">>, title |-> <<"U+0160">>],
      [c |-> "U+0162", lower |-> <<"U+0163">>, upper |-> <<"U+0162">>, title |-> <<"U+0162">>],
      [c |-> "U+0163", lower |-> <<"U+0163">>, upper |-> <<"U+0162">>, title |-> <<"U+0162">>],
      [c |-> "U+0164", lower |-> <<"U+0165">>, upper |-> <<"U+0164">>, title |-> <<"U+0164">>],
      [c |-> "U+0165", lower |-> <<"U+0165">>, upper |-> <<"U+0164">>, title |-> <<"U+0164">>],
      [c |-> "U+0166", lower |-> <<"U+0167">>, upper |-> <<"U+0166">>, title |-> <<"U+0166">>],
      [c |-> "U+0167", lower |-> <<"U+0167">>, upper |-> <<"U+0166">>, title |-> <<"U+0166">>],
      [c |-> "U+0168", lower |-> <<"U+0169">>, upper |-> <<"U+0168">>, title |-> <<"U+0168">>],
      [c |-> "U+0169", lower |-> <<"U+0169">>, upper |-> <<"U+0168">>, title |-> <<"U+0168">>],
      [c |-> "U+016A", lower |-> <<"U+016B">>, upper |-> <<"U+016A">>, title |-> <<"U+016A">>],
      [c |-> "U+016B", lower |-> <<"U+016B">>, upper |-> <<"U+016A">>, title |-> <<"U+016A">>],
      [c |-> "U+016C", lower |-> <<"U+016D">>, upper |-> <<"U+016C">>, title |-> <<"U+016C">>],
      [c |-> "U+016D", lower |-> <<"U+016D">>, upper |-> <<"U+016C">>, title |-> <<"U+016C">>],
      [c |-> "U+016E", lower |-> <<"U+016F">>, upper |-> <<"U+016E">>, title |-> <<"U+016E">>],
      [c |-> "U+016F", lower |-> <<"U+016F">>, upper |-> <<"U+016E">>, title |-> <<"U+016E">>],
      [c |-> "U+0170", lower |-> <<"U+0171">>, upper |-> <<"U+0170">>, title |-> <<"U+0170">>],
      [c |-> "U+0171", lower |-> <<"U+0171">>, upper |-> <<"U+0170">>, title |-> <<"U+0170">>],
      [c |-> "U+0172", lower |-> <<"U+0173">>, upper |-> <<"U+0172">>, title |-> <<"U+0172">>],
      [c |-> "U+0173", lower |-> <<"U+0173">>, upper |-> <<"U+0172">>, title |-> <<"U+0172">>],
      [c |-> "U+0174", lower |-> <<"U+0175">>, upper |-> <<"U+0174">>, title |-> <<"U+0174">>],
      [c |-> "U+0175", lower |-> <<"U+0175">>, upper |-> <<"U+0174">>, title |-> <<"U+0174">>],
      [c |-> "U+0176", lower |-> <<"U+0177">>, upper |-> <<"U+0176">>, title |-> <<"U+0176">>],
      [c |-> "U+0177", lower |-> <<"U+0177">>, upper |-> <<"U+0176">>, title |-> <<"U+0176">>],
      [c |-> "U+0178", lower |-> <<"U+00FF">>, upper |-> <<"U+0178">>, title |-> <<"U+0178">>],
      [c |-> "U+0179", lower |-> <<"U+017A">>, upper |-> <<"U+0179">>, title |-> <<"U+0179">>],
      [c |-> "U+017A", lower |-> <<"U+017A">>, upper |-> <<"U+0179">>, title |-> <<"U+0179">>],
      [c |-> "U+017B", lower |-> <<"U+017C">>, upper |-> <<"U+017B">>, title |-> <<"U+017B">>],
      [c |-> "U+017C", lower |-> <<"U+017C">>, upper |-> <<"U+017B">>, title |-> <<"U+017B">>],
      [c |-> "U+017D", lower |-> <<"U+017E">>, upper |-> <<"U+017D">>, title |-> <<"U+017D">>],
      [c |-> "U+017E", lower |-> <<"U+017E">>, upper |-> <<"U+017D">>, title |-> <<"U+017D">>],
      [c |-> "U+017F", lower |-> <<"U+017F">>, upper |-> <<"S">>, title |-> <<"S">>],
      [c |-> "U+0180", lower |-> <<"U+0180">>, upper |-> <<"U+0243">>, title |-> <<"U+0243">>],
      [c |-> "U+0181", lower |-> <<"U+0253">>, upper |-> <<"U+0181">>, title |-> <<"U+0181">>],
      [c |-> "U+0182", lower |-> <<"U+0183">>, upper |-> <<"U+0182">>, title |-> <<"U+0182">>],
      [c |-> "U+0183", lower |-> <<"U+0183">>, upper |-> <<"U+0182">>, title |-> <<"U+0182">>],
      [c |-> "U+0184", lower |-> <<"U+0185">>, upper |-> <<"U+0184">>, title |-> <<"U+0184">>],
      [c |-> "U+0185", lower |-> <<"U+0185">>, upper |-> <<"U+0184">>, title |-> <<"U+0184">>],
      [c |-> "U+0186", lower |-> <<"U+0254">>, upper |-> <<"U+0186">>, title |-> <<"U+0186">>],
      [c |-> "U+0187", lower |-> <<"U+0188">>, upper |-> <<"U+0187">>, title |-> <<"U+0187">>],
      [c |-> "U+0188", lower |-> <<"U+0188">>, upper |-> <<"U+0187">>, title |-> <<"U+0187">>],
      [c |-> "U+0189", lower |-> <<"U+0256">>, upper |-> <<"U+0189">>, title |-> <<"U+0189">>],
      [c |-> "U+018A", lower |-> <<"U+0257">>, upper |-> <<"U+018A">>, title |-> <<"U+018A">>],
      [c |-> "U+018B", lower |-> <<"U+018C">>, upper |-> <<"U+018B">>, title |-> <<"U+018B">>],
      [c |-> "U+018C", lower |-> <<"U+018C">>, upper |-> <<"U+018B">>, title |-> <<"U+018B">>],
      [c |-> "U+018E", lower |-> <<"U+01DD">>, upper |-> <<"U+018E">>, title |-> <<"U+018E">>],
      [c |-> "U+018F", lower |-> <<"U+0259">>, upper |-> <<"U+018F">>, title |-> <<"U+018F">>],
      [c |-> "U+0190", lower |-> <<"U+025B">>, upper |-> <<"U+0190">>, title |-> <<"U+0190">>],
      [c |-> "U+0191", lower |-> <<"U+0192">>, upper |-> <<"U+0191">>, title |-> <<"U+0191">>],
      [c |-> "U+0192", lower |-> <<"U+0192">>, upper |-> <<"U+0191">>, title |-> <<"U+0191">>],
      [c |-> "U+0193", lower |-> <<"U+0260">>, upper |-> <<"U+0193">>, title |-> <<"U+0193">>],
      [c |-> "U+0194", lower |-> <<"U+0263">>, upper |-> <<"U+0194">>, title |-> <<"U+0194">>],
      [c |-> "U+0195", lower |-> <<"U+0195">>, upper |-> <<"U+01F6">>, title |-> <<"U+01F6">>],
      [c |-> "U+0196", lower |-> <<"U+0269">>, upper |-> <<"U+0196">>, title |-> <<"U+0196">>],
      [c |-> "U+0197", lower |-> <<"U+0268">>, upper |-> <<"U+0197">>, title |-> <<"U+0197">>],
      [c |-> "U+0198", lower |-> <<"U+0199">>, upper |-> <<"U+0198">>, title |-> <<"U+0198">>],
      [c |-> "U+0199", lower |-> <<"U+0199">>, upper |-> <<"U+0198">>, title |-> <<"U+0198">>],
      [c |-> "U+019A", lower |-> <<"U+019A">>, upper |-> <<"U+023D">>, title |-> <<"U+023D">>],
      [c |-> "U+019C", lower |-> <<"U+026F">>, upper |-> <<"U+019C">>, title |-> <<"U+019C">>],
      [c |-> "U+019D", lower |-> <<"U+0272">>, upper |-> <<"U+019D">>, title |-> <<"U+019D">>],
      [c |-> "U+019E", lower |-> <<"U+019E">>, upper |-> <<"U+0220">>, title |-> <<"U+0220">>],
      [c |-> "U+019F", lower |-> <<"U+0275">>, upper |-> <<"U+019F">>, title |-> <<"U+019F">>],
      [c |-> "U+01A0", lower |-> <<"U+01A1">>, upper |-> <<"U+01A0">>, title |-> <<"U+01A0">>],
      [c |-> "U+01A1", lower |-> <<"U+01A1">>, upper |-> <<"U+01A0">>, title |-> <<"U+01A0">>],
      [c |-> "U+01A2", lower |-> <<"U+01A3">>, upper |-> <<"U+01A2">>, title |-> <<"U+01A2">>],
      [c |-> "U+01A3", lower |-> <<"U+01A3">>, upper |-> <<"U+01A2">>, title |-> <<"U+01A2">>],
      [c |-> "U+01A4", lower |-> <<"U+01A5">>, upper |-> <<"U+01A4">>, title |-> <<"U+01A4">>],
      [c |-> "U+01A5", lower |-> <<"U+01A5">>, upper |-> <<"U+01A4">>, title |-> <<"U+01A4">>],
      [c |-> "U+01A6", lower |-> <<"U+0280">>, upper |-> <<"U+01A6">>, title |-> <<"U+01A6">>],
      [c |-> "U+01A7", lower |-> <<"U+01A8">>, upper |-> <<"U+01A7">>, title |-> <<"U+01A7">>],
      [c |-> "U+01A8", lower |-> <<"U+01A8">>, upper |-> <<"U+01A7">>, title |-> <<"U+01A7">>],
      [c |-> "U+01A9", lower |-> <<"U+0283">>, upper |-> <<"U+01A9">>, title |-> <<"U+01A9">>],
      [c |-> "U+01AC", lower |-> <<"U+01AD">>, upper |-> <<"U+01AC">>, title |-> <<"U+01AC">>],
      [c |-> "U+01AD", lower |-> <<"U+01AD">>, upper |-> <<"U+01AC">>, title |-> <<"U+01AC">>],
      [c |-> "U+01AE", lower |-> <<"U+0288">>, upper |-> <<"U+01AE">>, title |-> <<"U+01AE">>],
      [c |-> "U+01AF", lower |-> <<"U+01B0">>, upper |-> <<"U+01AF">>, title |-> <<"U+01AF">>],
      [c |-> "U+01B0", lower |-> <<"U+01B0">>, upper |-> <<"U+01AF">>, title |-> <<"U+01AF">>],
      [c |-> "U+01B1", lower |-> <<"U+028A">>, upper |-> <<"U+01B1">>, title |-> <<"U+01B1">>],
      [c |-> "U+01B2", lower |-> <<"U+028B">>, upper |-> <<"U+01B2">>, title |-> <<"U+01B2">>],
      [c |-> "U+01B3", lower |-> <<"U+01B4">>, upper |-> <<"U+01B3">>, title |-> <<"U+01B3">>],
      [c |-> "U+01B4", lower |-> <<"U+01B4">>, upper |-> <<"U+01B3">>, title |-> <<"U+01B3">>],
      [c |-> "U+01B5", lower |-> <<"U+01B6">>, upper |-> <<"U+01B5">>, title |-> <<"U+01B5">>],
      [c |-> "U+01B6", lower |-> <<"U+01B6">>, upper |-> <<"U+01B5">>, title |-> <<"U+01B5">>],
      [c |-> "U+01B7", lower |-> <<"U+0292">>, upper |-> <<"U+01B7">>, title |-> <<"U+01B7">>],
      [c |-> "U+01B8", lower |-> <<"U+01B9">>, upper |-> <<"U+01B8">>, title |-> <<"U+01B8">>],
      [c |-> "U+01B9", lower |-> <<"U+01B9">>, upper |-> <<"U+01B8">>, title |-> <<"U+01B8">>],
      [c |-> "U+01BC", lower |-> <<"U+01BD">>, upper |-> <<"U+01BC">>, title |-> <<"U+01BC">>],
      [c |-> "U+01BD", lower |-> <<"U+01BD">>, upper |-> <<"U+01BC">>, title |-> <<"U+01BC">>],
      [c |-> "U+01BF", lower |-> <<"U+01BF">>, upper |-> <<"U+01F7">>, title |-> <<"U+01F7">>],
      [c |-> "U+01C4", lower |-> <<"U+01C6">>, upper |-> <<"U+01C4">>, title |-> <<"U+01C5">>],
      [c |-> "U+01C5", lower |-> <<"U+01C6">>, upper |-> <<"U+01C4">>, title |-> <<"U+01C5">>],
      [c |-> "U+01C6", lower |-> <<"U+01C6">>, upper |-> <<"U+01C4">>, title |-> <<"U+01C5">>],
      [c |-> "U+01C7", lower |-> <<"U+01C9">>, upper |-> <<"U+01C7">>, title |-> <<"U+01C8">>],
      [c |-> "U+01C8", lower |-> <<"U+01C9">>, upper |-> <<"U+01C7">>, title |-> <<"U+01C8">>],
      [c |-> "U+01C9", lower |-> <<"U+01C9">>, upper |-> <<"U+01C7">>, title |-> <<"U+01C8">>],
      [c |-> "U+01CA", lower |-> <<"U+01CC">>, upper |-> <<"U+01CA">>, title |-> <<"U+01CB">>],
      [c |-> "U+01CB", lower |-> <<"U+01CC">>, upper |-> <<"U+01CA">>, title |-> <<"U+01CB">>],
      [c |-> "U+01CC", lower |-> <<"U+01CC">>, upper |-> <<"U+01CA">>, title |-> <<"U+01CB">>],
      [c |-> "U+01CD", lower |-> <<"U+01CE">>, upper |-> <<"U+01CD">>, title |-> <<"U+01CD">>],
      [c |-> "U+01CE", lower |-> <<"U+01CE">>, upper |-> <<"U+01CD">>, title |-> <<"U+01CD">>],
      [c |-> "U+01CF", lower |-> <<"U+01D0">>, upper |-> <<"U+01CF">>, title |-> <<"U+01CF">>],
      [c |-> "U+01D0", lower |-> <<"U+01D0">>, upper |-> <<"U+01CF">>, title |-> <<"U+01CF">>],
      [c |-> "U+01D1", lower |-> <<"U+01D2">>, upper |-> <<"U+01D1">>, title |-> <<"U+01D1">>],
      [c |-> "U+01D2", lower |-> <<"U+01D2">>, upper |-> <<"U+01D1">>, title |-> <<"U+01D1">>],
      [c |-> "U+01D3", lower |-> <<"U+01D4">>, upper |-> <<"U+01D3">>, title |-> <<"U+01D3">>],
      [c |-> "U+01D4", lower |-> <<"U+01D4">>, upper |-> <<"U+01D3">>, title |-> <<"U+01D3">>],
      [c |-> "U+01D5", lower |-> <<"U+01D6">>, upper |-> <<"U+01D5">>, title |-> <<"U+01D5">>],
      [c |-> "U+01D6", lower |-> <<"U+01D6">>, upper |-> <<"U+01D5">>, title |-> <<"U+01D5">>],
      [c |-> "U+01D7", lower |-> <<"U+01D8">>, upper |-> <<"U+01D7">>, title |-> <<"U+01D7">>],
      [c |-> "U+01D8", lower |-> <<"U+01D8">>, upper |-> <<"U+01D7">>, title |-> <<"U+01D7">>],
      [c |-> "U+01D9", lower |-> <<"U+01DA">>, upper |-> <<"U+01D9">>, title |-> <<"U+01D9">>],
      [c |-> "U+01DA", lower |-> <<"U+01DA">>, upper |-> <<"U+01D9">>, title |-> <<"U+01D9">>],
      [c |-> "U+01DB", lower |-> <<"U+01DC">>, upper |-> <<"U+01DB">>, title |-> <<"U+01DB">>],
      [c |-> "U+01DC", lower |-> <<"U+01DC">>, upper |-> <<"U+01DB">>, title |-> <<"U+01DB">>],
      [c |-> "U+01DD", lower |-> <<"U+01DD">>, upper |-> <<"U+018E">>, title |-> <<"U+018E">>],
      [c |-> "U+01DE", lower |-> <<"U+01DF">>, upper |-> <<"U+01DE">>, title |-> <<"U+01DE">>],
      [c |-> "U+01DF", lower |-> <<"U+01DF">>, upper |-> <<"U+01DE">>, title |-> <<"U+01DE">>],
      [c |-> "U+01E0", lower |-> <<"U+01E1">>, upper |-> <<"U+01E0">>, title |-> <<"U+01E0">>],
      [c |-> "U+01E1", lower |-> <<"U+01E1">>, upper |-> <<"U+01E0">>, title |-> <<"U+01E0">>],
      [c |-> "U+01E2", lower |-> <<"U+01E3">>, upper |-> <<"U+01E2">>, title |-> <<"U+01E2">>],
      [c |-> "U+01E3", lower |-> <<"U+01E3">>, upper |-> <<"U+01E2">>, title |-> <<"U+01E2">>],
      [c |-> "U+01E4", lower |-> <<"U+01E5">>, upper |-> <<"U+01E4">>, title |-> <<"U+01E4">>],
      [c |-> "U+01E5", lower |-> <<"U+01E5">>, upper |-> <<"U+01E4">>, title |-> <<"U+01E4">>],
      [c |-> "U+01E6", lower |-> <<"U+01E7">>, upper |-> <<"U+01E6">>, title |-> <<"U+01E6">>],
      [c |-> "U+01E7", lower |-> <<"U+01E7">>, upper |-> <<"U+01E6">>, title |-> <<"U+01E6">>],
      [c |-> "U+01E8", lower |-> <<"U+01E9">>, upper |-> <<"U+01E8">>, title |-> <<"U+01E8">>],
      [c |-> "U+01E9", lower |-> <<"U+01E9">>, upper |-> <<"U+01E8">>, title |-> <<"U+01E8">>],
      [c |-> "U+01EA", lower |-> <<"U+01EB">>, upper |-> <<"U+01EA">>, title |-> <<"U+01EA">>],
      [c |-> "U+01EB", lower |-> <<"U+01EB">>, upper |-> <<"U+01EA">>, title |-> <<"U+01EA">>],
      [c |-> "U+01EC", lower |-> <<"U+01ED">>, upper |-> <<"U+01EC">>, title |-> <<"U+01EC">>],
      [c |-> "U+01ED", lower |-> <<"U+01ED">>, upper |-> <<"U+01EC">>, title |-> <<"U+01EC">>],
      [c |-> "U+01EE", lower |-> <<"U+01EF">>, upper |-> <<"U+01EE">>, title |-> <<"U+01EE">>],
      [c |-> "U+01EF", lower |-> <<"U+01EF">>, upper |-> <<"U+01EE">>, title |-> <<"U+01EE">>],
      [c |-> "U+01F0", lower |-> <<"U+01F0">>, upper |-> <<"J","U+030C">>, title |-> <<"J","U+030C">>],
      [c |-> "U+01F1", lower |-> <<"U+01F3">>, upper |-> <<"U+01F1">>, title |-> <<"U+01F2">>],
      [c |-> "U+01F2", lower |-> <<"U+01F3">>, upper |-> <<"U+01F1">>, title |-> <<"U+01F2">>],
      [c |-> "U+01F3", lower |-> <<"U+01F3">>, upper |-> <<"U+01F1">>, title |-> <<"U+01F2">>],
      [c |-> "U+01F4", lower |-> <<"U+01F5">>, upper |-> <<"U+01F4">>, title |-> <<"U+01F4">>],
      [c |-> "U+01F5", lower |-> <<"U+01F5">>, upper |-> <<"U+01F4">>, title |-> <<"U+01F4">>],
      [c |-> "U+01F6", lower |-> <<"U+0195">>, upper |-> <<"U+01F6">>, title |-> <<"U+01F6">>],
      [c |-> "U+01F7", lower |-> <<"U+01BF">>, upper |-> <<"U+01F7">>, title |-> <<"U+01F7">>],
      [c |-> "U+01F8", lower |-> <<"U+01F9">>, upper |-> <<"U+01F8">>, title |-> <<"U+01F8">>],
      [c |-> "U+01F9", lower |-> <<"U+01F9">>, upper |-> <<"U+01F8">>, title |-> <<"U+01F8">>],
      [c |-> "U+01FA", lower |-> <<"U+01FB">>, upper |-> <<"U+01FA">>, title |-> <<"U+01FA">>],
      [c |-> "U+01FB", lower |-> <<"U+01FB">>, upper |-> <<"U+01FA">>, title |-> <<"U+01FA">>],
      [c |-> "U+01FC", lower |-> <<"U+01FD">>, upper |-> <<"U+01FC">>, title |-> <<"U+01FC">>],
      [c |-> "U+01FD", lower |-> <<"U+01FD">>, upper |-> <<"U+01FC">>, title |-> <<"U+01FC">>],
      [c |-> "U+01FE", lower |-> <<"U+01FF">>, upper |-> <<"U+01FE">>, title |-> <<"U+01FE">>],
      [c |-> "U+01FF", lower |-> <<"U+01FF">>, upper |-> <<"U+01FE">>, title |-> <<"U+01FE">>],
      [c |-> "U+0200", lower |-> <<"U+0201">>, upper |-> <<"U+0200">>, title |-> <<"U+0200">>],
      [c |-> "U+0201", lower |-> <<"U+0201">>, upper |-> <<"U+0200">>, title |-> <<"U+0200">>],
      [c |-> "U+0202", lower |-> <<"U+0203">>, upper |-> <<"U+0202">>, title |-> <<"U+0202">>],
      [c |-> "U+0203", lower |-> <<"U+0203">>, upper |-> <<"U+0202">>, title |-> <<"U+0202">>],
      [c |-> "U+0204", lower |-> <<"U+0205">>, upper |-> <<"U+0204">>, title |-> <<"U+0204">>],
      [c |-> "U+0205", lower |-> <<"U+0205">>, upper |-> <<"U+0204">>, title |-> <<"U+0204">>],
      [c |-> "U+0206", lower |-> <<"U+0207">>, upper |-> <<"U+0206">>, title |-> <<"U+0206">>],
      [c |-> "U+0207", lower |-> <<"U+0207">>, upper |-> <<"U+0206">>, title |-> <<"U+0206">>],
      [c |-> "U+0208", lower |-> <<"U+0209">>, upper |-> <<"U+0208">>, title |-> <<"U+0208">>],
      [c |-> "U+0209", lower |-> <<"U+0209">>, upper |-> <<"U+0208">>, title |-> <<"U+0208">>],
      [c |-> "U+020A", lower |-> <<"U+020B">>, upper |-> <<"U+020A">>, title |-> <<"U+020A">>],
      [c |-> "U+020B", lower |-> <<"U+020B">>, upper |-> <<"U+020A">>, title |-> <<"U+020A">>],
      [c |-> "U+020C", lower |-> <<"U+020D">>, upper |-> <<"U+020C">>, title |-> <<"U+020C">>],
      [c |-> "U+020D", lower |-> <<"U+020D">>, upper |-> <<"U+020C">>, title |-> <<"U+020C">>],
      [c |-> "U+020E", lower |-> <<"U+020F">>, upper |-> <<"U+020E">>, title |-> <<"U+020E">>],
      [c |-> "U+020F", lower |-> <<"U+020F">>, upper |-> <<"U+020E">>, title |-> <<"U+020E">>],
      [c |-> "U+0210", lower |-> <<"U+0211">>, upper |-> <<"U+0210">>, title |-> <<"U+0210">>],
      [c |-> "U+0211", lower |-> <<"U+0211">>, upper |-> <<"U+0210">>, title |-> <<"U+0210">>],
      [c |-> "U+0212", lower |-> <<"U+0213">>, upper |-> <<"U+0212">>, title |-> <<"U+0212">>],
      [c |-> "U+0213", lower |-> <<"U+0213">>, upper |-> <<"U+0212">>, title |-> <<"U+0212">>],
      [c |-> "U+0214", lower |-> <<"U+0215">>, upper |-> <<"U+0214">>, title |-> <<"U+0214">>],
      [c |-> "U+0215", lower |-> <<"U+0215">>, upper |-> <<"U+0214">>, title |-> <<"U+0214">>],
      [c |-> "U+0216", lower |-> <<"U+0217">>, upper |-> <<"U+0216">>, title |-> <<"U+0216">>],
      [c |-> "U+0217", lower |-> <<"U+0217">>, upper |-> <<"U+0216">>, title |-> <<"U+0216">>],
      [c |-> "U+0218", lower |-> <<"U+0219">>, upper |-> <<"U+0218">>, title |-> <<"U+0218">>],
      [c |-> "U+0219", lower |-> <<"U+0219">>, upper |-> <<"U+0218">>, title |-> <<"U+0218">>],
      [c |-> "U+021A", lower |-> <<"U+021B">>, upper |-> <<"U+021A">>, title |-> <<"U+021A">>],
      [c |-> "U+021B", lower |-> <<"U+021B">>, upper |-> <<"U+021A">>, title |-> <<"U+021A">>],
      [c |-> "U+021C", lower |-> <<"U+021D">>, upper |-> <<"U+021C">>, title |-> <<"U+021C">>],
      [c |-> "U+021D", lower |-> <<"U+021D">>, upper |-> <<"U+021C">>, title |-> <<"U+021C">>],
      [c |-> "U+021E", lower |-> <<"U+021F">>, upper |-> <<"U+021E">>, title |-> <<"U+021E">>],
      [c |-> "U+021F", lower |-> <<"U+021F">>, upper |-> <<"U+021E">>, title |-> <<"U+021E">>],
      [c |-> "U+0220", lower |-> <<"U+019E">>, upper |-> <<"U+0220">>, title |-> <<"U+0220">>],
      [c |-> "U+0222", lower |-> <<"U+0223">>, upper |-> <<"U+0222">>, title |-> <<"U+0222">>],
      [c |-> "U+0223", lower |-> <<"U+0223">>, upper |-> <<"U+0222">>, title |-> <<"U+0222">>],
      [c |-> "U+0224", lower |-> <<"U+0225">>, upper |-> <<"U+0224">>, title |-> <<"U+0224">>],
      [c |-> "U+0225", lower |-> <<"U+0225">>, upper |-> <<"U+0224">>, title |-> <<"U+0224">>],
      [c |-> "U+0226", lower |-> <<"U+0227">>, upper |-> <<"U+0226">>, title |-> <<"U+0226">>],
      [c |-> "U+0227", lower |-> <<"U+0227">>, upper |-> <<"U+0226">>, title |-> <<"U+0226">>],
      [c |-> "U+0228", lower |-> <<"U+0229">>, upper |-> <<"U+0228">>, title |-> <<"U+0228">>],
      [c |-> "U+0229", lower |-> <<"U+0229">>, upper |-> <<"U+0228">>, title |-> <<"U+0228">>],
      [c |-> "U+022A", lower |-> <<"U+022B">>, upper |-> <<"U+022A">>, title |-> <<"U+022A">>],
      [c |-> "U+022B", lower |-> <<"U+022B">>, upper |-> <<"U+022A">>, title |-> <<"U+022A">>],
      [c |-> "U+022C", lower |-> <<"U+022D">>, upper |-> <<"U+022C">>, title |-> <<"U+022C">>],
      [c |-> "U+022D", lower |-> <<"U+022D">>, upper |-> <<"U+022C">>, title |-> <<"U+022C">>],
      [c |-> "U+022E", lower |-> <<"U+022F">>, upper |-> <<"U+022E">>, title |-> <<"U+022E">>],
      [c |-> "U+022F", lower |-> <<"U+022F">>, upper |-> <<"U+022E">>, title |-> <<"U+022E">>],
      [c |-> "U+0230", lower |-> <<"U+0231">>, upper |-> <<"U+0230">>, title |-> <<"U+0230">>],
      [c |-> "U+0231", lower |-> <<"U+0231">>, upper |-> <<"U+0230">>, title |-> <<"U+0230">>],
      [c |-> "U+0232", lower |-> <<"U+0233">>, upper |-> <<"U+0232">>, title |-> <<"U+0232">>],
      [c |-> "U+0233", lower |-> <<"U+0233">>, upper |-> <<"U+0232">>, title |-> <<"U+0232">>],
      [c |-> "U+023A", lower |-> <<"U+2C65">>, upper |-> <<"U+023A">>, title |-> <<"U+023A">>],
      [c |-> "U+023B", lower |-> <<"U+023C">>, upper |-> <<"U+023B">>, title |-> <<"U+023B">>],
      [c |-> "U+023C", lower |-> <<"U+023C">>, upper |-> <<"U+023B">>, title |-> <<"U+023B">>],
      [c |-> "U+023D", lower |-> <<"U+019A">>, upper |-> <<"U+023D">>, title |-> <<"U+023D">>],
      [c |-> "U+023E", lower |-> <<"U+2C66">>, upper |-> <<"U+023E">>, title |-> <<"U+023E">>],
      [c |-> "U+023F", lower |-> <<"U+023F">>, upper |-> <<"U+2C7E">>, title |-> <<"U+2C7E">>],
      [c |-> "U+0240", lower |-> <<"U+0240">>, upper |-> <<"U+2C7F">>, title |-> <<"U+2C7F">>],
      [c |-> "U+0241", lower |-> <<"U+0242">>, upper |-> <<"U+0241">>, title |-> <<"U+0241">>],
      [c |-> "U+0242", lower |-> <<"U+0242">>, upper |-> <<"U+0241">>, title |-> <<"U+0241">>],
      [c |-> "U+0243", lower |-> <<"U+0180">>, upper |-> <<"U+0243">>, title |-> <<"U+0243">>],
      [c |-> "U+0244", lower |-> <<"U+0289">>, upper |-> <<"U+0244">>, title |-> <<"U+0244">>],
      [c |-> "U+0245", lower |-> <<"U+028C">>, upper |-> <<"U+0245">>, title |-> <<"U+0245">>],
      [c |-> "U+0246", lower |-> <<"U+0247">>, upper |-> <<"U+0246">>, title |-> <<"U+0246">>],
      [c |-> "U+0247", lower |-> <<"U+0247">>, upper |-> <<"U+0246">>, title |-> <<"U+0246">>],
      [c |-> "U+0248", lower |-> <<"U+0249">>, upper |-> <<"U+0248">>, title |-> <<"U+0248">>],
      [c |-> "U+0249", lower |-> <<"U+0249">>, upper |-> <<"U+0248">>, title |-> <<"U+0248">>],
      [c |-> "U+024A", lower |-> <<"U+024B">>, upper |-> <<"U+024A">>, title |-> <<"U+024A">>],
      [c |-> "U+024B", lower |-> <<"U+024B">>, upper |-> <<"U+024A">>, title |-> <<"U+024A">>],
      [c |-> "U+024C", lower |-> <<"U+024D">>, upper |-> <<"U+024C">>, title |-> <<"U+024C">>],
      [c |-> "U+024D", lower |-> <<"U+024D">>, upper |-> <<"U+024C">>, title |-> <<"U+024C">>],
      [c |-> "U+024E", lower |-> <<"U+024F">>, upper |-> <<"U+024E">>, title |-> <<"U+024E">>],
      [c |-> "U+024F", lower |-> <<"U+024F">>, upper |-> <<"U+024E">>, title |-> <<"U+024E">>],
      [c |-> "U+0250", lower |-> <<"U+0250">>, upper |-> <<"U+2C6F">>, title |-> <<"U+2C6F">>],
      [c |-> "U+0251", lower |-> <<"U+0251">>, upper |-> <<"U+2C6D">>, title |-> <<"U+2C6D">>],
      [c |-> "U+0252", lower |-> <<"U+0252">>, upper |-> <<"U+2C70">>, title |-> <<"U+2C70">>],
      [c |-> "U+0253", lower |-> <<"U+0253">>, upper |-> <<"U+0181">>, title |-> <<"U+0181">>],
      [c |-> "U+0254", lower |-> <<"U+0254">>, upper |-> <<"U+0186">>, title |-> <<"U+0186">>],
      [c |-> "U+0256", lower |-> <<"U+0256">>, upper |-> <<"U+0189">>, title |-> <<"U+0189">>],
      [c |-> "U+0257", lower |-> <<"U+0257">>, upper |-> <<"U+018A">>, title |-> <<"U+018A">>],
      [c |-> "U+0259", lower |-> <<"U+0259">>, upper |-> <<"U+018F">>, title |-> <<"U+018F">>],
      [c |-> "U+025B", lower |-> <<"U+025B">>, upper |-> <<"U+0190">>, title |-> <<"U+0190">>],
      [c |-> "U+025C", lower |-> <<"U+025C">>, upper |-> <<"U+A7AB">>, title |-> <<"U+A7AB">>],
      [c |-> "U+0260", lower |-> <<"U+0260">>, upper |-> <<"U+0193">>, title |-> <<"U+0193">>],
      [c |-> "U+0261", lower |-> <<"U+0261">>, upper |-> <<"U+A7AC">>, title |-> <<"U+A7AC">>],
      [c |-> "U+0263", lower |-> <<"U+0263">>, upper |-> <<"U+0194">>, title |-> <<"U+0194">>],
      [c |-> "U+0265", lower |-> <<"U+0265">>, upper |-> <<"U+A78D">>, title |-> <<"U+A78D">>],
      [c |-> "U+0266", lower |-> <<"U+0266">>, upper |-> <<"U+A7AA">>, title |-> <<"U+A7AA">>],
      [c |-> "U+0268", lower |-> <<"U+0268">>, upper |-> <<"U+0197">>, title |-> <<"U+0197">>],
      [c |-> "U+0269", lower |-> <<"U+0269">>, upper |-> <<"U+0196">>, title |-> <<"U+0196">>],
      [c |-> "U+026A", lower |-> <<"U+026A">>, upper |-> <<"U+A7AE">>, title |-> <<"U+A7AE">>],
      [c |-> "U+026B", lower |-> <<"U+026B">>, upper |-> <<"U+2C62">>, title |-> <<"U+2C62">>],
      [c |-> "U+026C", lower |-> <<"U+026C">>, upper |-> <<"U+A7AD">>, title |-> <<"U+A7AD">>],
      [c |-> "U+026F", lower |-> <<"U+026F">>, upper |-> <<"U+019C">>, title |-> <<"U+019C">>],
      [c |-> "U+0271", lower |-> <<"U+0271">>, upper |-> <<"U+2C6E">>, title |-> <<"U+2C6E">>],
      [c |-> "U+0272", lower |-> <<"U+0272">>, upper |-> <<"U+019D">>, title |-> <<"U+019D">>],
      [c |-> "U+0275", lower |-> <<"U+0275">>, upper |-> <<"U+019F">>, title |-> <<"U+019F">>],
      [c |-> "U+027D", lower |-> <<"U+027D">>, upper |-> <<"U+2C64">>, title |-> <<"U+2C64">>],
      [c |-> "U+0280", lower |-> <<"U+0280">>, upper |-> <<"U+01A6">>, title |-> <<"U+01A6">>],
      [c |-> "U+0282", lower |-> <<"U+0282">>, upper |-> <<"U+A7C5">>, title |-> <<"U+A7C5">>],
      [c |-> "U+0283", lower |-> <<"U+0283">>, upper |-> <<"U+01A9">>, title |-> <<"U+01A9">>],
      [c |-> "U+0287", lower |-> <<"U+0287">>, upper |-> <<"U+A7B1">>, title |-> <<"U+A7B1">>],
      [c |-> "U+0288", lower |-> <<"U+0288">>, upper |-> <<"U+01AE">>, title |-> <<"U+01AE">>],
      [c |-> "U+0289", lower |-> <<"U+0289">>, upper |-> <<"U+0244">>, title |-> <<"U+0244">>],
      [c |-> "U+028A", lower |-> <<"U+028A">>, upper |-> <<"U+01B1">>, title |-> <<"U+01B1">>],
      [c |-> "U+028B", lower |-> <<"U+028B">>, upper |-> <<"U+01B2">>, title |-> <<"U+01B2">>],
      [c |-> "U+028C", lower |-> <<"U+028C">>, upper |-> <<"U+0245">>, title |-> <<"U+0245">>],
      [c |-> "U+0292", lower |-> <<"U+0292">>, upper |-> <<"U+01B7">>, title |-> <<"U+01B7">>],
      [c |-> "U+029D", lower |-> <<"U+029D">>, upper |-> <<"U+A7B2">>, title |-> <<"U+A7B2">>],
      [c |-> "U+029E", lower |-> <<"U+029E">>, upper |-> <<"U+A7B0">>, title |-> <<"U+A7B0">>],
      [c |-> "U+0345", lower |-> <<"U+0345">>, upper |-> <<"U+0399">>, title |-> <<"U+0399">>],
      [c |-> "U+0370", lower |-> <<"U+0371">>, upper |-> <<"U+0370">>, title |-> <<"U+0370">>],
      [c |-> "U+0371", lower |-> <<"U+0371">>, upper |-> <<"U+0370">>, title |-> <<"U+0370">>],
      [c |-> "U+0372", lower |-> <<"U+0373">>, upper |-> <<"U+0372">>, title |-> <<"U+0372">>],
      [c |-> "U+0373", lower |-> <<"U+0373">>, upper |-> <<"U+0372">>, title |-> <<"U+0372">>],
      [c |-> "U+0376", lower |-> <<"U+0377">>, upper |-> <<"U+0376">>, title |-> <<"U+0376">>],
      [c |-> "U+0377", lower |-> <<"U+0377">>, upper |-> <<"U+0376">>, title |-> <<"U+0376">>],
      [c |-> "U+037B", lower |-> <<"U+037B">>, upper |-> <<"U+03FD">>, title |-> <<"U+03FD">>],
      [c |-> "U+037C", lower |-> <<"U+037C">>, upper |-> <<"U+03FE">>, title |-> <<"U+03FE">>],
      [c |-> "U+037D", lower |-> <<"U+037D">>, upper |-> <<"U+03FF">>, title |-> <<"U+03FF">>],
      [c |-> "U+037F", lower |-> <<"U+03F3">>, upper |-> <<"U+037F">>, title |-> <<"U+037F">>],
      [c |-> "U+0386", lower |-> <<"U+03AC">>, upper |-> <<"U+0386">>, title |-> <<"U+0386">>],
      [c |-> "U+0388", lower |-> <<"U+03AD">>, upper |-> <<"U+0388">>, title |-> <<"U+0388">>],
      [c |-> "U+0389", lower |-> <<"U+03AE">>, upper |-> <<"U+0389">>, title |-> <<"U+0389">>],
      [c |-> "U+038A", lower |-> <<"U+03AF">>, upper |-> <<"U+038A">>, title |-> <<"U+038A">>],
      [c |-> "U+038C", lower |-> <<"U+03CC">>, upper |-> <<"U+038C">>, title |-> <<"U+038C">>],
      [c |-> "U+038E", lower |-> <<"U+03CD">>, upper |-> <<"U+038E">>, title |-> <<"U+038E">>],
      [c |-> "U+038F", lower |-> <<"U+03CE">>, upper |-> <<"U+038F">>, title |-> <<"U+038F">>],
      [c |-> "U+0390", lower |-> <<"U+0390">>, upper |-> <<"U+0399","U+0308","U+0301">>, title |-> <<"U+0399","U+0308","U+0301">>],
      [c |-> "U+0391", lower |-> <<"U+03B1">>, upper |-> <<"U+0391">>, title |-> <<"U+0391">>],
      [c |-> "U+0392", lower |-> <<"U+03B2">>, upper |-> <<"U+0392">>, title |-> <<"U+0392">>],
      [c |-> "U+0393", lower |-> <<"U+03B3">>, upper |-> <<"U+0393">>, title |-> <<"U+0393">>],
      [c |-> "U+0394", lower |-> <<"U+03B4">>, upper |-> <<"U+0394">>, title |-> <<"U+0394">>],
      [c |-> "U+0395", lower |-> <<"U+03B5">>, upper |-> <<"U+0395">>, title |-> <<"U+0395">>],
      [c |-> "U+0396", lower |-> <<"U+03B6">>, upper |-> <<"U+0396">>, title |-> <<"U+0396">>],
      [c |-> "U+0397", lower |-> <<"U+03B7">>, upper |-> <<"U+0397">>, title |-> <<"U+0397">>],
      [c |-> "U+0398", lower |-> <<"U+03B8">>, upper |-> <<"U+0398">>, title |-> <<"U+0398">>],
      [c |-> "U+0399", lower |-> <<"U+03B9">>, upper |-> <<"U+0399">>, title |-> <<"U+0399">>],
      [c |-> "U+039A", lower |-> <<"U+03BA">>, upper |-> <<"U+039A">>, title |-> <<"U+039A">>],
      [c |-> "U+039B", lower |-> <<"U+03BB">>, upper |-> <<"U+039B">>, title |-> <<"U+039B">>],
      [c |-> "U+039C", lower |-> <<"U+03BC">>, upper |-> <<"U+039C">>, title |-> <<"U+039C">>],
      [c |-> "U+039D", lower |-> <<"U+03BD">>, upper |-> <<"U+039D">>, title |-> <<"U+039D">>],
      [c |-> "U+039E", lower |-> <<"U+03BE">>, upper |-> <<"U+039E">>, title |-> <<"U+039E">>],
      [c |-> "U+039F", lower |-> <<"U+03BF">>, upper |-> <<"U+039F">>, title |-> <<"U+039F">>],
      [c |-> "U+03A0", lower |-> <<"U+03C0">>, upper |-> <<"U+03A0">>, title |-> <<"U+03A0">>],
      [c |-> "U+03A1", lower |-> <<"U+03C1">>, upper |-> <<"U+03A1">>, title |-> <<"U+03A1">>],
      [c |-> "U+03A3", lower |-> <<"U+03C3">>, upper |-> <<"U+03A3">>, title |-> <<"U+03A3">>],
      [c |-> "U+03A4", lower |-> <<"U+03C4">>, upper |-> <<"U+03A4">>, title |-> <<"U+03A4">>],
      [c |-> "U+03A5", lower |-> <<"U+03C5">>, upper |-> <<"U+03A5">>, title |-> <<"U+03A5">>],
      [c |-> "U+03A6", lower |-> <<"U+03C6">>, upper |-> <<"U+03A6">>, title |-> <<"U+03A6">>],
      [c |-> "U+03A7", lower |-> <<"U+03C7">>, upper |-> <<"U+03A7">>, title |-> <<"U+03A7">>],
      [c |-> "U+03A8", lower |-> <<"U+03C8">>, upper |-> <<"U+03A8">>, title |-> <<"U+03A8">>],
      [c |-> "U+03A9", lower |-> <<"U+03C9">>, upper |-> <<"U+03A9">>, title |-> <<"U+03A9">>],
      [c |-> "U+03AA", lower |-> <<"U+03CA">>, upper |-> <<"U+03AA">>, title |-> <<"U+03AA">>],
      [c |-> "U+03AB", lower |-> <<"U+03CB">>, upper |-> <<"U+03AB">>, title |-> <<"U+03AB">>],
      [c |-> "U+03AC", lower |-> <<"U+03AC">>, upper |-> <<"U+0386">>, title |-> <<"U+0386">>],
      [c |-> "U+03AD", lower |-> <<"U+03AD">>, upper |-> <<"U+0388">>, title |-> <<"U+0388">>],
      [c |-> "U+03AE", lower |-> <<"U+03AE">>, upper |-> <<"U+0389">>, title |-> <<"U+0389">>],
      [c |-> "U+03AF", lower |-> <<"U+03AF">>, upper |-> <<"U+038A">>, title |-> <<"U+038A">>],
      [c |-> "U+03B0", lower |-> <<"U+03B0">>, upper |-> <<"U+03A5","U+0308","U+0301">>, title |-> <<"U+03A5","U+0308","U+0301">>],
      [c |-> "U+03B1", lower |-> <<"U+03B1">>, upper |-> <<"U+0391">>, title |-> <<"U+0391">>],
      [c |-> "U+03B2", lower |-> <<"U+03B2">>, upper |-> <<"U+0392">>, title |-> <<"U+0392">>],
      [c |-> "U+03B3", lower |-> <<"U+03B3">>, upper |-> <<"U+0393">>, title |-> <<"U+0393">>],
      [c |-> "U+03B4", lower |-> <<"U+03B4">>, upper |-> <<"U+0394">>, title |-> <<"U+0394">>],
      [c |-> "U+03B5", lower |-> <<"U+03B5">>, upper |-> <<"U+0395">>, title |-> <<"U+0395">>],
      [c |-> "U+03B6", lower |-> <<"U+03B6">>, upper |-> <<"U+0396">>, title |-> <<"U+0396">>],
      [c |-> "U+03B7", lower |-> <<"U+03B7">>, upper |-> <<"U+0397">>, title |-> <<"U+0397">>],
      [c |-> "U+03B8", lower |-> <<"U+03B8">>, upper |-> <<"U+0398">>, title |-> <<"U+0398">>],
      [c |-> "U+03B9", lower |-> <<"U+03B9">>, upper |-> <<"U+0399">>, title |-> <<"U+0399">>],
      [c |-> "U+03BA", lower |-> <<"U+03BA">>, upper |-> <<"U+039A">>, title |-> <<"U+039A">>],
      [c |-> "U+03BB", lower |-> <<"U+03BB">>, upper |-> <<"U+039B">>, title |-> <<"U+039B">>],
      [c |-> "U+03BC", lower |-> <<"U+03BC">>, upper |-> <<"U+039C">>, title |-> <<"U+039C">>],
      [c |-> "U+03BD", lower |-> <<"U+03BD">>, upper |-> <<"U+039D">>, title |-> <<"U+039D">>],
      [c |-> "U+03BE", lower |-> <<"U+03BE">>, upper |-> <<"U+039E">>, title |-> <<"U+039E">>],
      [c |-> "U+03BF", lower |-> <<"U+03BF">>, upper |-> <<"U+039F">>, title |-> <<"U+039F">>],
      [c |-> "U+03C0", lower |-> <<"U+03C0">>, upper |-> <<"U+03A0">>, title |-> <<"U+03A0">>],
      [c |-> "U+03C1", lower |-> <<"U+03C1">>, upper |-> <<"U+03A1">>, title |-> <<"U+03A1">>],
      [c |-> "U+03C2", lower |-> <<"U+03C2">>, upper |-> <<"U+03A3">>, title |-> <<"U+03A3">>],
      [c |-> "U+03C3", lower |-> <<"U+03C3">>, upper |-> <<"U+03A3">>, title |-> <<"U+03A3">>],
      [c |-> "U+03C4", lower |-> <<"U+03C4">>, upper |-> <<"U+03A4">>, title |-> <<"U+03A4">>],
      [c |-> "U+03C5", lower |-> <<"U+03C5">>, upper |-> <<"U+03A5">>, title |-> <<"U+03A5">>],
      [c |-> "U+03C6", lower |-> <<"U+03C6">>, upper |-> <<"U+03A6">>, title |-> <<"U+03A6">>],
      [c |-> "U+03C7", lower |-> <<"U+03C7">>, upper |-> <<"U+03A7">>, title |-> <<"U+03A7">>],
      [c |-> "U+03C8", lower |-> <<"U+03C8">>, upper |-> <<"U+03A8">>, title |-> <<"U+03A8">>],
      [c |-> "U+03C9", lower |-> <<"U+03C9">>, upper |-> <<"U+03A9">>, title |-> <<"U+03A9">>],
      [c |-> "U+03CA", lower |-> <<"U+03CA">>, upper |-> <<"U+03AA">>, title |-> <<"U+03AA">>],
      [c |-> "U+03CB", lower |-> <<"U+03CB">>, upper |-> <<"U+03AB">>, title |-> <<"U+03AB">>],
      [c |-> "U+03CC", lower |-> <<"U+03CC">>, upper |-> <<"U+038C">>, title |-> <<"U+038C">>],
      [c |-> "U+03CD", lower |-> <<"U+03CD">>, upper |-> <<"U+038E">>, title |-> <<"U+038E">>],
      [c |-> "U+03CE", lower |-> <<"U+03CE">>, upper |-> <<"U+038F">>, title |-> <<"U+038F">>],
      [c |-> "U+03CF", lower |-> <<"U+03D7">>, upper |-> <<"U+03CF">>, title |-> <<"U+03CF">>],
      [c |-> "U+03D0", lower |-> <<"U+03D0">>, upper |-> <<"U+0392">>, title |-> <<"U+0392">>],
      [c |-> "U+03D1", lower |-> <<"U+03D1">>, upper |-> <<"U+0398">>, title |-> <<"U+0398">>],
      [c |-> "U+03D5", lower |-> <<"U+03D5">>, upper |-> <<"U+03A6">>, title |-> <<"U+03A6">>],
      [c |-> "U+03D6", lower |-> <<"U+03D6">>, upper |-> <<"U+03A0">>, title |-> <<"U+03A0">>],
      [c |-> "U+03D7", lower |-> <<"U+03D7">>, upper |-> <<"U+03CF">>, title |-> <<"U+03CF">>],
      [c |-> "U+03D8", lower |-> <<"U+03D9">>, upper |-> <<"U+03D8">>, title |-> <<"U+03D8">>],
      [c |-> "U+03D9", lower |-> <<"U+03D9">>, upper |-> <<"U+03D8">>, title |-> <<"U+03D8">>],
      [c |-> "U+03DA", lower |-> <<"U+03DB">>, upper |-> <<"U+03DA">>, title |-> <<"U+03DA">>],
      [c |-> "U+03DB", lower |-> <<"U+03DB">>, upper |-> <<"U+03DA">>, title |-> <<"U+03DA">>],
      [c |-> "U+03DC", lower |-> <<"U+03DD">>, upper |-> <<"U+03DC">>, title |-> <<"U+03DC">>],
      [c |-> "U+03DD", lower |-> <<"U+03DD">>, upper |-> <<"U+03DC">>, title |-> <<"U+03DC">>],
      [c |-> "U+03DE", lower |-> <<"U+03DF">>, upper |-> <<"U+03DE">>, title |-> <<"U+03DE">>],
      [c |-> "U+03DF", lower |-> <<"U+03DF">>, upper |-> <<"U+03DE">>, title |-> <<"U+03DE">>],
      [c |-> "U+03E0", lower |-> <<"U+03E1">>, upper |-> <<"U+03E0">>, title |-> <<"U+03E0">>],
      [c |-> "U+03E1", lower |-> <<"U+03E1">>, upper |-> <<"U+03E0">>, title |-> <<"U+03E0">>],
      [c |-> "U+03E2", lower |-> <<"U+03E3">>, upper |-> <<"U+03E2">>, title |-> <<"U+03E2">>],
      [c |-> "U+03E3", lower |-> <<"U+03E3">>, upper |-> <<"U+03E2">>, title |-> <<"U+03E2">>],
      [c |-> "U+03E4", lower |-> <<"U+03E5">>, upper |-> <<"U+03E4">>, title |-> <<"U+03E4">>],
      [c |-> "U+03E5", lower |-> <<"U+03E5">>, upper |-> <<"U+03E4">>, title |-> <<"U+03E4">>],
      [c |-> "U+03E6", lower |-> <<"U+03E7">>, upper |-> <<"U+03E6">>, title |-> <<"U+03E6">>],
      [c |-> "U+03E7", lower |-> <<"U+03E7">>, upper |-> <<"U+03E6">>, title |-> <<"U+03E6">>],
      [c |-> "U+03E8", lower |-> <<"U+03E9">>, upper |-> <<"U+03E8">>, title |-> <<"U+03E8">>],
      [c |-> "U+03E9", lower |-> <<"U+03E9">>, upper |-> <<"U+03E8">>, title |-> <<"U+03E8">>],
      [c |-> "U+03EA", lower |-> <<"U+03EB">>, upper |-> <<"U+03EA">>, title |-> <<"U+03EA">>],
      [c |-> "U+03EB", lower |-> <<"U+03EB">>, upper |-> <<"U+03EA">>, title |-> <<"U+03EA">>],
      [c |-> "U+03EC", lower |-> <<"U+03ED">>, upper |-> <<"U+03EC">>, title |-> <<"U+03EC">>],
      [c |-> "U+03ED", lower |-> <<"U+03ED">>, upper |-> <<"U+03EC">>, title |-> <<"U+03EC">>],
      [c |-> "U+03EE", lower |-> <<"U+03EF">>, upper |-> <<"U+03EE">>, title |-> <<"U+03EE">>],
      [c |-> "U+03EF", lower |-> <<"U+03EF">>, upper |-> <<"U+03EE">>, title |-> <<"U+03EE">>],
      [c |-> "U+03F0", lower |-> <<"U+03F0">>, upper |-> <<"U+039A">>, title |-> <<"U+039A">>],
      [c |-> "U+03F1", lower |-> <<"U+03F1">>, upper |-> <<"U+03A1">>, title |-> <<"U+03A1">>],
      [c |-> "U+03F2", lower |-> <<"U+03F2">>, upper |-> <<"U+03F9">>, title |-> <<"U+03F9">>],
      [c |-> "U+03F3", lower |-> <<"U+03F3">>, upper |-> <<"U+037F">>, title |-> <<"U+037F">>],
      [c |-> "U+03F4", lower |-> <<"U+03B8">>, upper |-> <<"U+03F4">>, title |-> <<"U+03F4">>],
      [c |-> "U+03F5", lower |-> <<"U+03F5">>, upper |-> <<"U+0395">>, title |-> <<"U+0395">>],
      [c |-> "U+03F7", lower |-> <<"U+03F8">>, upper |-> <<"U+03F7">>, title |-> <<"U+03F7">>],
      [c |-> "U+03F8", lower |-> <<"U+03F8">>, upper |-> <<"U+03F7">>, title |-> <<"U+03F7">>],
      [c |-> "U+03F9", lower |-> <<"U+03F2">>, upper |-> <<"U+03F9">>, title |-> <<"U+03F9">>],
      [c |-> "U+03FA", lower |-> <<"U+03FB">>, upper |-> <<"U+03FA">>, title |-> <<"U+03FA">>],
      [c |-> "U+03FB", lower |-> <<"U+03FB">>, upper |-> <<"U+03FA">>, title |-> <<"U+03FA">>],
      [c |-> "U+03FD", lower |-> <<"U+037B">>, upper |-> <<"U+03FD">>, title |-> <<"U+03FD">>],
      [c |-> "U+03FE", lower |-> <<"U+037C">>, upper |-> <<"U+03FE">>, title |-> <<"U+03FE">>],
      [c |-> "U+03FF", lower |-> <<"U+037D">>, upper |-> <<"U+03FF">>, title |-> <<"U+03FF">>],
      [c |-> "U+0400", lower |-> <<"U+0450">>, upper |-> <<"U+0400">>, title |-> <<"U+0400">>],
      [c |-> "U+0401", lower |-> <<"U+0451">>, upper |-> <<"U+0401">>, title |-> <<"U+0401">>],
      [c |-> "U+0402", lower |-> <<"U+0452">>, upper |-> <<"U+0402">>, title |-> <<"U+0402">>],
      [c |-> "U+0403", lower |-> <<"U+0453">>, upper |-> <<"U+0403">>, title |-> <<"U+0403">>],
      [c |-> "U+0404", lower |-> <<"U+0454">>, upper |-> <<"U+0404">>, title |-> <<"U+0404">>],
      [c |-> "U+0405", lower |-> <<"U+0455">>, upper |-> <<"U+0405">>, title |-> <<"U+0405">>],
      [c |-> "U+0406", lower |-> <<"U+0456">>, upper |-> <<"U+0406">>, title |-> <<"U+0406">>],
      [c |-> "U+0407", lower |-> <<"U+0457">>, upper |-> <<"U+0407">>, title |-> <<"U+0407">>],
      [c |-> "U+0408", lower |-> <<"U+0458">>, upper |-> <<"U+0408">>, title |-> <<"U+0408">>],
      [c |-> "U+0409", lower |-> <<"U+0459">>, upper |-> <<"U+0409">>, title |-> <<"U+0409">>],
      [c |-> "U+040A", lower |-> <<"U+045A">>, upper |-> <<"U+040A">>, title |-> <<"U+040A">>],
      [c |-> "U+040B", lower |-> <<"U+045B">>, upper |-> <<"U+040B">>, title |-> <<"U+040B">>],
      [c |-> "U+040C", lower |-> <<"U+045C">>, upper |-> <<"U+040C">>, title |-> <<"U+040C">>],
      [c |-> "U+040D", lower |-> <<"U+045D">>, upper |-> <<"U+040D">>, title |-> <<"U+040D">>],
      [c |-> "U+040E", lower |-> <<"U+045E">>, upper |-> <<"U+040E">>, title |-> <<"U+040E">>],
      [c |-> "U+040F", lower |-> <<"U+045F">>, upper |-> <<"U+040F">>, title |-> <<"U+040F">>],
      [c |-> "U+0410", lower |-> <<"U+0430">>, upper |-> <<"U+0410">>, title |-> <<"U+0410">>],
      [c |-> "U+0411", lower |-> <<"U+0431">>, upper |-> <<"U+0411">>, title |-> <<"U+0411">>],
      [c |-> "U+0412", lower |-> <<"U+0432">>, upper |-> <<"U+0412">>, title |-> <<"U+0412">>],
      [c |-> "U+0413", lower |-> <<"U+0433">>, upper |-> <<"U+0413">>, title |-> <<"U+0413">>],
      [c |-> "U+0414", lower |-> <<"U+0434">>, upper |-> <<"U+0414">>, title |-> <<"U+0414">>],
      [c |-> "U+0415", lower |-> <<"U+0435">>, upper |-> <<"U+0415">>, title |-> <<"U+0415">>],
      [c |-> "U+0416", lower |-> <<"U+0436">>, upper |-> <<"U+0416">>, title |-> <<"U+0416">>],
      [c |-> "U+0417", lower |-> <<"U+0437">>, upper |-> <<"U+0417">>, title |-> <<"U+0417">>],
      [c |-> "U+0418", lower |-> <<"U+0438">>, upper |-> <<"U+0418">>, title |-> <<"U+0418">>],
      [c |-> "U+0419", lower |-> <<"U+0439">>, upper |-> <<"U+0419">>, title |-> <<"U+0419">>],
      [c |-> "U+041A", lower |-> <<"U+043A">>, upper |-> <<"U+041A">>, title |-> <<"U+041A">>],
      [c |-> "U+041B", lower |-> <<"U+043B">>, upper |-> <<"U+041B">>, title |-> <<"U+041B">>],
      [c |-> "U+041C", lower |-> <<"U+043C">>, upper |-> <<"U+041C">>, title |-> <<"U+041C">>],
      [c |-> "U+041D", lower |-> <<"U+043D">>, upper |-> <<"U+041D">>, title |-> <<"U+041D">>],
      [c |-> "U+041E", lower |-> <<"U+043E">>, upper |-> <<"U+041E">>, title |-> <<"U+041E">>],
      [c |-> "U+041F", lower |-> <<"U+043F">>, upper |-> <<"U+041F">>, title |-> <<"U+041F">>],
      [c |-> "U+0420", lower |-> <<"U+0440">>, upper |-> <<"U+0420">>, title |-> <<"U+0420">>],
      [c |-> "U+0421", lower |-> <<"U+0441">>, upper |-> <<"U+0421">>, title |-> <<"U+0421">>],
      [c |-> "U+0422", lower |-> <<"U+0442">>, upper |-> <<"U+0422">>, title |-> <<"U+0422">>],
      [c |-> "U+0423", lower |-> <<"U+0443">>, upper |-> <<"U+0423">>, title |-> <<"U+0423">>],
      [c |-> "U+0424", lower |-> <<"U+0444">>, upper |-> <<"U+0424">>, title |-> <<"U+0424">>],
      [c |-> "U+0425", lower |-> <<"U+0445">>, upper |-> <<"U+0425">>, title |-> <<"U+0425">>],
      [c |-> "U+0426", lower |-> <<"U+0446">>, upper |-> <<"U+0426">>, title |-> <<"U+0426">>],
      [c |-> "U+0427", lower |-> <<"U+0447">>, upper |-> <<"U+0427">>, title |-> <<"U+0427">>],
      [c |-> "U+0428", lower |-> <<"U+0448">>, upper |-> <<"U+0428">>, title |-> <<"U+0428">>],
      [c |-> "U+0429", lower |-> <<"U+0449">>, upper |-> <<"U+0429">>, title |-> <<"U+0429">>],
      [c |-> "U+042A", lower |-> <<"U+044A">>, upper |-> <<"U+042A">>, title |-> <<"U+042A">>],
      [c |-> "U+042B", lower |-> <<"U+044B">>, upper |-> <<"U+042B">>, title |-> <<"U+042B">>],
      [c |-> "U+042C", lower |-> <<"U+044C">>, upper |-> <<"U+042C">>, title |-> <<"U+042C">>],
      [c |-> "U+042D", lower |-> <<"U+044D">>, upper |-> <<"U+042D">>, title |-> <<"U+042D">>],
      [c |-> "U+042E", lower |-> <<"U+044E">>, upper |-> <<"U+042E">>, title |-> <<"U+042E">>],
      [c |-> "U+042F", lower |-> <<"U+044F">>, upper |-> <<"U+042F">>, title |-> <<"U+042F">>],
      [c |-> "U+0430", lower |-> <<"U+0430">>, upper |-> <<"U+0410">>, title |-> <<"U+0410">>],
      [c |-> "U+0431", lower |-> <<"U+0431">>, upper |-> <<"U+0411">>, title |-> <<"U+0411">>],
      [c |-> "U+0432", lower |-> <<"U+0432">>, upper |-> <<"U+0412">>, title |-> <<"U+0412">>],
      [c |-> "U+0433", lower |-> <<"U+0433">>, upper |-> <<"U+0413">>, title |-> <<"U+0413">>],
      [c |-> "U+0434", lower |-> <<"U+0434">>, upper |-> <<"U+0414">>, title |-> <<"U+0414">>],
      [c |-> "U+0435", lower |-> <<"U+0435">>, upper |-> <<"U+0415">>, title |-> <<"U+0415">>],
      [c |-> "U+0436", lower |-> <<"U+0436">>, upper |-> <<"U+0416">>, title |-> <<"U+0416">>],
      [c |-> "U+0437", lower |-> <<"U+0437">>, upper |-> <<"U+0417">>, title |-> <<"U+0417">>],
      [c |-> "U+0438", lower |-> <<"U+0438">>, upper |-> <<"U+0418">>, title |-> <<"U+0418">>],
      [c |-> "U+0439", lower |-> <<"U+0439">>, upper |-> <<"U+0419">>, title |-> <<"U+0419">>],
      [c |-> "U+043A", lower |-> <<"U+043A">>, upper |-> <<"U+041A">>, title |-> <<"U+041A">>],
      [c |-> "U+043B", lower |-> <<"U+043B">>, upper |-> <<"U+041B">>, title |-> <<"U+041B">>],
      [c |-> "U+043C", lower |-> <<"U+043C">>, upper |-> <<"U+041C">>, title |-> <<"U+041C">>],
      [c |-> "U+043D", lower |-> <<"U+043D">>, upper |-> <<"U+041D">>, title |-> <<"U+041D">>],
      [c |-> "U+043E", lower |-> <<"U+043E">>, upper |-> <<"U+041E">>, title |-> <<"U+041E">>],
      [c |-> "U+043F", lower |-> <<"U+043F">>, upper |-> <<"U+041F">>, title |-> <<"U+041F">>],
      [c |-> "U+0440", lower |-> <<"U+0440">>, upper |-> <<"U+0420">>, title |-> <<"U+0420">>],
      [c |-> "U+0441", lower |-> <<"U+0441">>, upper |-> <<"U+0421">>, title |-> <<"U+0421">>],
      [c |-> "U+0442", lower |-> <<"U+0442">>, upper |-> <<"U+0422">>, title |-> <<"U+0422">>],
      [c |-> "U+0443", lower |-> <<"U+0443">>, upper |-> <<"U+0423">>, title |-> <<"U+0423">>],
      [c |-> "U+0444", lower |-> <<"U+0444">>, upper |-> <<"U+0424">>, title |-> <<"U+0424">>],
      [c |-> "U+0445", lower |-> <<"U+0445">>, upper |-> <<"U+0425">>, title |-> <<"U+0425">>],
      [c |-> "U+0446", lower |-> <<"U+0446">>, upper |-> <<"U+0426">>, title |-> <<"U+0426">>],
      [c |-> "U+0447", lower |-> <<"U+0447">>, upper |-> <<"U+0427">>, title |-> <<"U+0427">>],
      [c |-> "U+0448", lower |-> <<"U+0448">>, upper |-> <<"U+0428">>, title |-> <<"U+0428">>],
      [c |-> "U+0449", lower |-> <<"U+0449">>, upper |-> <<"U+0429">>, title |-> <<"U+0429">>],
      [c |-> "U+044A", lower |-> <<"U+044A">>, upper |-> <<"U+042A">>, title |-> <<"U+042A">>],
      [c |-> "U+044B", lower |-> <<"U+044B">>, upper |-> <<"U+042B">>, title |-> <<"U+042B">>],
      [c |-> "U+044C", lower |-> <<"U+044C">>, upper |-> <<"U+042C">>, title |-> <<"U+042C">>],
      [c |-> "U+044D", lower |-> <<"U+044D">>, upper |-> <<"U+042D">>, title |-> <<"U+042D">>],
      [c |-> "U+044E", lower |-> <<"U+044E">>, upper |-> <<"U+042E">>, title |-> <<"U+042E">>],
      [c |-> "U+044F", lower |-> <<"U+044F">>, upper |-> <<"U+042F">>, title |-> <<"U+042F">>],
      [c |-> "U+0450", lower |-> <<"U+0450">>, upper |-> <<"U+0400">>, title |-> <<"U+0400">>],
      [c |-> "U+0451", lower |-> <<"U+0451">>, upper |-> <<"U+0401">>, title |-> <<"U+0401">>],
      [c |-> "U+0452", lower |-> <<"U+0452">>, upper |-> <<"U+0402">>, title |-> <<"U+0402">>],
      [c |-> "U+0453", lower |-> <<"U+0453">>, upper |-> <<"U+0403">>, title |-> <<"U+0403">>],
      [c |-> "U+0454", lower |-> <<"U+0454">>, upper |-> <<"U+0404">>, title |-> <<"U+0404">>],
      [c |-> "U+0455", lower |-> <<"U+0455">>, upper |-> <<"U+0405">>, title |-> <<"U+0405">>],
      [c |-> "U+0456", lower |-> <<"U+0456">>, upper |-> <<"U+0406">>, title |-> <<"U+0406">>],
      [c |-> "U+0457", lower |-> <<"U+0457">>, upper |-> <<"U+0407">>, title |-> <<"U+0407">>],
      [c |-> "U+0458", lower |-> <<"U+0458">>, upper |-> <<"U+0408">>, title |-> <<"U+0408">>],
      [c |-> "U+0459", lower |-> <<"U+0459">>, upper |-> <<"U+0409">>, title |-> <<"U+0409">>],
      [c |-> "U+045A", lower |-> <<"U+045A">>, upper |-> <<"U+040A">>, title |-> <<"U+040A">>],
      [c |-> "U+045B", lower |-> <<"U+045B">>, upper |-> <<"U+040B">>, title |-> <<"U+040B">>],
      [c |-> "U+045C", lower |-> <<"U+045C">>, upper |-> <<"U+040C">>, title |-> <<"U+040C">>],
      [c |-> "U+045D", lower |-> <<"U+045D">>, upper |-> <<"U+040D">>, title |-> <<"U+040D">>],
      [c |-> "U+045E", lower |-> <<"U+045E">>, upper |-> <<"U+040E">>, title |-> <<"U+040E">>],
      [c |-> "U+045F", lower |-> <<"U+045F">>, upper |-> <<"U+040F">>, title |-> <<"U+040F">>],
      [c |-> "U+0460", lower |-> <<"U+0461">>, upper |-> <<"U+0460">>, title |-> <<"U+0460">>],
      [c |-> "U+0461", lower |-> <<"U+0461">>, upper |-> <<"U+0460">>, title |-> <<"U+0460">>],
      [c |-> "U+0462", lower |-> <<"U+0463">>, upper |-> <<"U+0462">>, title |-> <<"U+0462">>],
      [c |-> "U+0463", lower |-> <<"U+0463">>, upper |-> <<"U+0462">>, title |-> <<"U+0462">>],
      [c |-> "U+0464", lower |-> <<"U+0465">>, upper |-> <<"U+0464">>, title |-> <<"U+0464">>],
      [c |-> "U+0465", lower |-> <<"U+0465">>, upper |-> <<"U+0464">>, title |-> <<"U+0464">>],
      [c |-> "U+0466", lower |-> <<"U+0467">>, upper |-> <<"U+0466">>, title |-> <<"U+0466">>],
      [c |-> "U+0467", lower |-> <<"U+0467">>, upper |-> <<"U+0466">>, title |-> <<"U+0466">>],
      [c |-> "U+0468", lower |-> <<"U+0469">>, upper |-> <<"U+0468">>, title |-> <<"U+0468">>],
      [c |-> "U+0469", lower |-> <<"U+0469">>, upper |-> <<"U+0468">>, title |-> <<"U+0468">>],
      [c |-> "U+046A", lower |-> <<"U+046B">>, upper |-> <<"U+046A">>, title |-> <<"U+046A">>],
      [c |-> "U+046B", lower |-> <<"U+046B">>, upper |-> <<"U+046A">>, title |-> <<"U+046A">>],
      [c |-> "U+046C", lower |-> <<"U+046D">>, upper |-> <<"U+046C">>, title |-> <<"U+046C">>],
      [c |-> "U+046D", lower |-> <<"U+046D">>, upper |-> <<"U+046C">>, title |-> <<"U+046C">>],
      [c |-> "U+046E", lower |-> <<"U+046F">>, upper |-> <<"U+046E">>, title |-> <<"U+046E">>],
      [c |-> "U+046F", lower |-> <<"U+046F">>, upper |-> <<"U+046E">>, title |-> <<"U+046E">>],
      [c |-> "U+0470", lower |-> <<"U+0471">>, upper |-> <<"U+0470">>, title |-> <<"U+0470">>],
      [c |-> "U+0471", lower |-> <<"U+0471">>, upper |-> <<"U+0470">>, title |-> <<"U+0470">>],
      [c |-> "U+0472", lower |-> <<"U+0473">>, upper |-> <<"U+0472">>, title |-> <<"U+0472">>],
      [c |-> "U+0473", lower |-> <<"U+0473">>, upper |-> <<"U+0472">>, title |-> <<"U+0472">>],
      [c |-> "U+0474", lower |-> <<"U+0475">>, upper |-> <<"U+0474">>, title |-> <<"U+0474">>],
      [c |-> "U+0475", lower |-> <<"U+0475">>, upper |-> <<"U+0474">>, title |-> <<"U+0474">>],
      [c |-> "U+0476", lower |-> <<"U+0477">>, upper |-> <<"U+0476">>, title |-> <<"U+0476">>],
      [c |-> "U+0477", lower |-> <<"U+0477">>, upper |-> <<"U+0476">>, title |-> <<"U+0476">>],
      [c |-> "U+0478", lower |-> <<"U+0479">>, upper |-> <<"U+0478">>, title |-> <<"U+0478">>],
      [c |-> "U+0479", lower |-> <<"U+0479">>, upper |-> <<"U+0478">>, title |-> <<"U+0478">>],
      [c |-> "U+047A", lower |-> <<"U+047B">>, upper |-> <<"U+047A">>, title |-> <<"U+047A">>],
      [c |-> "U+047B", lower |-> <<"U+047B">>, upper |-> <<"U+047A">>, title |-> <<"U+047A">>],
      [c |-> "U+047C", lower |-> <<"U+047D">>, upper |-> <<"U+047C">>, title |-> <<"U+047C">>],
      [c |-> "U+047D", lower |-> <<"U+047D">>, upper |-> <<"U+047C">>, title |-> <<"U+047C">>],
      [c |-> "U+047E", lower |-> <<"U+047F">>, upper |-> <<"U+047E">>, title |-> <<"U+047E">>],
      [c |-> "U+047F", lower |-> <<"U+047F">>, upper |-> <<"U+047E">>, title |-> <<"U+047E">>],
      [c |-> "U+0480", lower |-> <<"U+0481">>, upper |-> <<"U+0480">>, title |-> <<"U+0480">>],
      [c |-> "U+0481", lower |-> <<"U+0481">>, upper |-> <<"U+0480">>, title |-> <<"U+0480">>],
      [c |-> "U+048A", lower |-> <<"U+048B">>, upper |-> <<"U+048A">>, title |-> <<"U+048A">>],
      [c |-> "U+048B", lower |-> <<"U+048B">>, upper |-> <<"U+048A">>, title |-> <<"U+048A">>],
      [c |-> "U+048C", lower |-> <<"U+048D">>, upper |-> <<"U+048C">>, title |-> <<"U+048C">>],
      [c |-> "U+048D", lower |-> <<"U+048D">>, upper |-> <<"U+048C">>, title |-> <<"U+048C">>],
      [c |-> "U+048E", lower |-> <<"U+048F">>, upper |-> <<"U+048E">>, title |-> <<"U+048E">>],
      [c |-> "U+048F", lower |-> <<"U+048F">>, upper |-> <<"U+048E">>, title |-> <<"U+048E">>],
      [c |-> "U+0490", lower |-> <<"U+0491">>, upper |-> <<"U+0490">>, title |-> <<"U+0490">>],
      [c |-> "U+0491", lower |-> <<"U+0491">>, upper |-> <<"U+0490">>, title |-> <<"U+0490">>],
      [c |-> "U+0492", lower |-> <<"U+0493">>, upper |-> <<"U+0492">>, title |-> <<"U+0492">>],
      [c |-> "U+0493", lower |-> <<"U+0493">>, upper |-> <<"U+0492">>, title |-> <<"U+0492">>],
      [c |-> "U+0494", lower |-> <<"U+0495">>, upper |-> <<"U+0494">>, title |-> <<"U+0494">>],
      [c |-> "U+0495", lower |-> <<"U+0495">>, upper |-> <<"U+0494">>, title |-> <<"U+0494">>],
      [c |-> "U+0496", lower |-> <<"U+0497">>, upper |-> <<"U+0496">>, title |-> <<"U+0496">>],
      [c |-> "U+0497", lower |-> <<"U+0497">>, upper |-> <<"U+0496">>, title |-> <<"U+0496">>],
      [c |-> "U+0498", lower |-> <<"U+0499">>, upper |-> <<"U+0498">>, title |-> <<"U+0498">>],
      [c |-> "U+0499", lower |-> <<"U+0499">>, upper |-> <<"U+0498">>, title |-> <<"U+0498">>],
      [c |-> "U+049A", lower |-> <<"U+049B">>, upper |-> <<"U+049A">>, title |-> <<"U+049A">>],
      [c |-> "U+049B", lower |-> <<"U+049B">>, upper |-> <<"U+049A">>, title |-> <<"U+049A">>],
      [c |-> "U+049C", lower |-> <<"U+049D">>, upper |-> <<"U+049C">>, title |-> <<"U+049C">>],
      [c |-> "U+049D", lower |-> <<"U+049D">>, upper |-> <<"U+049C">>, title |-> <<"U+049C">>],
      [c |-> "U+049E", lower |-> <<"U+049F">>, upper |-> <<"U+049E">>, title |-> <<"U+049E">>],
      [c |-> "U+049F", lower |-> <<"U+049F">>, upper |-> <<"U+049E">>, title |-> <<"U+049E">>],
      [c |-> "U+04A0", lower |-> <<"U+04A1">>, upper |-> <<"U+04A0">>, title |-> <<"U+04A0">>],
      [c |-> "U+04A1", lower |-> <<"U+04A1">>, upper |-> <<"U+04A0">>, title |-> <<"U+04A0">>],
      [c |-> "U+04A2", lower |-> <<"U+04A3">>, upper |-> <<"U+04A2">>, title |-> <<"U+04A2">>],
      [c |-> "U+04A3", lower |-> <<"U+04A3">>, upper |-> <<"U+04A2">>, title |-> <<"U+04A2">>],
      [c |-> "U+04A4", lower |-> <<"U+04A5">>, upper |-> <<"U+04A4">>, title |-> <<"U+04A4">>],
      [c |-> "U+04A5", lower |-> <<"U+04A5">>, upper |-> <<"U+04A4">>, title |-> <<"U+04A4">>],
      [c |-> "U+04A6", lower |-> <<"U+04A7">>, upper |-> <<"U+04A6">>, title |-> <<"U+04A6">>],
      [c |-> "U+04A7", lower |-> <<"U+04A7">>, upper |-> <<"U+04A6">>, title |-> <<"U+04A6">>],
      [c |-> "U+04A8", lower |-> <<"U+04A9">>, upper |-> <<"U+04A8">>, title |-> <<"U+04A8">>],
      [c |-> "U+04A9", lower |-> <<"U+04A9">>, upper |-> <<"U+04A8">>, title |-> <<"U+04A8">>],
      [c |-> "U+04AA", lower |-> <<"U+04AB">>, upper |-> <<"U+04AA">>, title |-> <<"U+04AA">>],
      [c |-> "U+04AB", lower |-> <<"U+04AB">>, upper |-> <<"U+04AA">>, title |-> <<"U+04AA">>],
      [c |-> "U+04AC", lower |-> <<"U+04AD">>, upper |-> <<"U+04AC">>, title |-> <<"U+04AC">>],
      [c |-> "U+04AD", lower |-> <<"U+04AD">>, upper |-> <<"U+04AC">>, title |-> <<"U+04AC">>],
      [c |-> "U+04AE", lower |-> <<"U+04AF">>, upper |-> <<"U+04AE">>, title |-> <<"U+04AE">>],
      [c |-> "U+04AF", lower |-> <<"U+04AF">>, upper |-> <<"U+04AE">>, title |-> <<"U+04AE">>],
      [c |-> "U+04B0", lower |-> <<"U+04B1">>, upper |-> <<"U+04B0">>, title |-> <<"U+04B0">>],
      [c |-> "U+04B1", lower |-> <<"U+04B1">>, upper |-> <<"U+04B0">>, title |-> <<"U+04B0">>],
      [c |-> "U+04B2", lower |-> <<"U+04B3">>, upper |-> <<"U+04B2">>, title |-> <<"U+04B2">>],
      [c |-> "U+04B3", lower |-> <<"U+04B3">>, upper |-> <<"U+04B2">>, title |-> <<"U+04B2">>],
      [c |-> "U+04B4", lower |-> <<"U+04B5">>, upper |-> <<"U+04B4">>, title |-> <<"U+04B4">>],
      [c |-> "U+04B5", lower |-> <<"U+04B5">>, upper |-> <<"U+04B4">>, title |-> <<"U+04B4">>],
      [c |-> "U+04B6", lower |-> <<"U+04B7">>, upper |-> <<"U+04B6">>, title |-> <<"U+04B6">>],
      [c |-> "U+04B7", lower |-> <<"U+04B7">>, upper |-> <<"U+04B6">>, title |-> <<"U+04B6">>],
      [c |-> "U+04B8", lower |-> <<"U+04B9">>, upper |-> <<"U+04B8">>, title |-> <<"U+04B8">>],
      [c |-> "U+04B9", lower |-> <<"U+04B9">>, upper |-> <<"U+04B8">>, title |-> <<"U+04B8">>],
      [c |-> "U+04BA", lower |-> <<"U+04BB">>, upper |-> <<"U+04BA">>, title |-> <<"U+04BA">>],
      [c |-> "U+04BB", lower |-> <<"U+04BB">>, upper |-> <<"U+04BA">>, title |-> <<"U+04BA">>],
      [c |-> "U+04BC", lower |-> <<"U+04BD">>, upper |-> <<"U+04BC">>, title |-> <<"U+04BC">>],
      [c |-> "U+04BD", lower |-> <<"U+04BD">>, upper |-> <<"U+04BC">>, title |-> <<"U+04BC">>],
      [c |-> "U+04BE", lower |-> <<"U+04BF">>, upper |-> <<"U+04BE">>, title |-> <<"U+04BE">>],
      [c |-> "U+04BF", lower |-> <<"U+04BF">>, upper |-> <<"U+04BE">>, title |-> <<"U+04BE">>],
      [c |-> "U+04C0", lower |-> <<"U+04CF">>, upper |-> <<"U+04C0">>, title |-> <<"U+04C0">>],
      [c |-> "U+04C1", lower |-> <<"U+04C2">>, upper |-> <<"U+04C1">>, title |-> <<"U+04C1">>],
      [c |-> "U+04C2", lower |-> <<"U+04C2">>, upper |-> <<"U+04C1">>, title |-> <<"U+04C1">>],
      [c |-> "U+04C3", lower |-> <<"U+04C4">>, upper |-> <<"U+04C3">>, title |-> <<"U+04C3">>],
      [c |-> "U+04C4", lower |-> <<"U+04C4">>, upper |-> <<"U+04C3">>, title |-> <<"U+04C3">>],
      [c |-> "U+04C5", lower |-> <<"U+04C6">>, upper |-> <<"U+04C5">>, title |-> <<"U+04C5">>],
      [c |-> "U+04C6", lower |-> <<"U+04C6">>, upper |-> <<"U+04C5">>, title |-> <<"U+04C5">>],
      [c |-> "U+04C7", lower |-> <<"U+04C8">>, upper |-> <<"U+04C7">>, title |-> <<"U+04C7">>],
      [c |-> "U+04C8", lower |-> <<"U+04C8">>, upper |-> <<"U+04C7">>, title |-> <<"U+04C7">>],
      [c |-> "U+04C9", lower |-> <<"U+04CA">>, upper |-> <<"U+04C9">>, title |-> <<"U+04C9">>],
      [c |-> "U+04CA", lower |-> <<"U+04CA">>, upper |-> <<"U+04C9">>, title |-> <<"U+04C9">>],
      [c |-> "U+04CB", lower |-> <<"U+04CC">>, upper |-> <<"U+04CB">>, title |-> <<"U+04CB">>],
      [c |-> "U+04CC", lower |-> <<"U+04CC">>, upper |-> <<"U+04CB">>, title |-> <<"U+04CB">>],
      [c |-> "U+04CD", lower |-> <<"U+04CE">>, upper |-> <<"U+04CD">>, title |-> <<"U+04CD">>],
      [c |-> "U+04CE", lower |-> <<"U+04CE">>, upper |-> <<"U+04CD">>, title |-> <<"U+04CD">>],
      [c |-> "U+04CF", lower |-> <<"U+04CF">>, upper |-> <<"U+04C0">>, title |-> <<"U+04C0">>],
      [c |-> "U+04D0", lower |-> <<"U+04D1">>, upper |-> <<"U+04D0">>, title |-> <<"U+04D0">>],
      [c |-> "U+04D1", lower |-> <<"U+04D1">>, upper |-> <<"U+04D0">>, title |-> <<"U+04D0">>],
      [c |-> "U+04D2", lower |-> <<"U+04D3">>, upper |-> <<"U+04D2">>, title |-> <<"U+04D2">>],
      [c |-> "U+04D3", lower |-> <<"U+04D3">>, upper |-> <<"U+04D2">>, title |-> <<"U+04D2">>],
      [c |-> "U+04D4", lower |-> <<"U+04D5">>, upper |-> <<"U+04D4">>, title |-> <<"U+04D4">>],
      [c |-> "U+04D5", lower |-> <<"U+04D5">>, upper |-> <<"U+04D4">>, title |-> <<"U+04D4">>],
      [c |-> "U+04D6", lower |-> <<"U+04D7">>, upper |-> <<"U+04D6">>, title |-> <<"U+04D6">>],
      [c |-> "U+04D7", lower |-> <<"U+04D7">>, upper |-> <<"U+04D6">>, title |-> <<"U+04D6">>],
      [c |-> "U+04D8", lower |-> <<"U+04D9">>, upper |-> <<"U+04D8">>, title |-> <<"U+04D8">>],
      [c |-> "U+04D9", lower |-> <<"U+04D9">>, upper |-> <<"U+04D8">>, title |-> <<"U+04D8">>],
      [c |-> "U+04DA", lower |-> <<"U+04DB">>, upper |-> <<"U+04DA">>, title |-> <<"U+04DA">>],
      [c |-> "U+04DB", lower |-> <<"U+04DB">>, upper |-> <<"U+04DA">>, title |-> <<"U+04DA">>],
      [c |-> "U+04DC", lower |-> <<"U+04DD">>, upper |-> <<"U+04DC">>, title |-> <<"U+04DC">>],
      [c |-> "U+04DD", lower |-> <<"U+04DD">>, upper |-> <<"U+04DC">>, title |-> <<"U+04DC">>],
      [c |-> "U+04DE", lower |-> <<"U+04DF">>, upper |-> <<"U+04DE">>, title |-> <<"U+04DE">>],
      [c |-> "U+04DF", lower |-> <<"U+04DF">>, upper |-> <<"U+04DE">>, title |-> <<"U+04DE">>],
      [c |-> "U+04E0", lower |-> <<"U+04E1">>, upper |-> <<"U+04E0">>, title |-> <<"U+04E0">>],
      [c |-> "U+04E1", lower |-> <<"U+04E1">>, upper |-> <<"U+04E0">>, title |-> <<"U+04E0">>],
      [c |-> "U+04E2", lower |-> <<"U+04E3">>, upper |-> <<"U+04E2">>, title |-> <<"U+04E2">>],
      [c |-> "U+04E3", lower |-> <<"U+04E3">>, upper |-> <<"U+04E2">>, title |-> <<"U+04E2">>],
      [c |-> "U+04E4", lower |-> <<"U+04E5">>, upper |-> <<"U+04E4">>, title |-> <<"U+04E4">>],
      [c |-> "U+04E5", lower |-> <<"U+04E5">>, upper |-> <<"U+04E4">>, title |-> <<"U+04E4">>],
      [c |-> "U+04E6", lower |-> <<"U+04E7">>, upper |-> <<"U+04E6">>, title |-> <<"U+04E6">>],
      [c |-> "U+04E7", lower |-> <<"U+04E7">>, upper |-> <<"U+04E6">>, title |-> <<"U+04E6">>],
      [c |-> "U+04E8", lower |-> <<"U+04E9">>, upper |-> <<"U+04E8">>, title |-> <<"U+04E8">>],
      [c |-> "U+04E9", lower |-> <<"U+04E9">>, upper |-> <<"U+04E8">>, title |-> <<"U+04E8">>],
      [c |-> "U+04EA", lower |-> <<"U+04EB">>, upper |-> <<"U+04EA">>, title |-> <<"U+04EA">>],
      [c |-> "U+04EB", lower |-> <<"U+04EB">>, upper |-> <<"U+04EA">>, title |-> <<"U+04EA">>],
      [c |-> "U+04EC", lower |-> <<"U+04ED">>, upper |-> <<"U+04EC">>, title |-> <<"U+04EC">>],
      [c |-> "U+04ED", lower |-> <<"U+04ED">>, upper |-> <<"U+04EC">>, title |-> <<"U+04EC">>],
      [c |-> "U+04EE", lower |-> <<"U+04EF">>, upper |-> <<"U+04EE">>, title |-> <<"U+04EE">>],
      [c |-> "U+04EF", lower |-> <<"U+04EF">>, upper |-> <<"U+04EE">>, title |-> <<"U+04EE">>],
      [c |-> "U+04F0", lower |-> <<"U+04F1">>, upper |-> <<"U+04F0">>, title |-> <<"U+04F0">>],
      [c |-> "U+04F1", lower |-> <<"U+04F1">>, upper |-> <<"U+04F0">>, title |-> <<"U+04F0">>],
      [c |-> "U+04F2", lower |-> <<"U+04F3">>, upper |-> <<"U+04F2">>, title |-> <<"U+04F2">>],
      [c |-> "U+04F3", lower |-> <<"U+04F3">>, upper |-> <<"U+04F2">>, title |-> <<"U+04F2">>],
      [c |-> "U+04F4", lower |-> <<"U+04F5">>, upper |-> <<"U+04F4">>, title |-> <<"U+04F4">>],
      [c |-> "U+04F5", lower |-> <<"U+04F5">>, upper |-> <<"U+04F4">>, title |-> <<"U+04F4">>],
      [c |-> "U+04F6", lower |-> <<"U+04F7">>, upper |-> <<"U+04F6">>, title |-> <<"U+04F6">>],
      [c |-> "U+04F7", lower |-> <<"U+04F7">>, upper |-> <<"U+04F6">>, title |-> <<"U+04F6">>],
      [c |-> "U+04F8", lower |-> <<"U+04F9">>, upper |-> <<"U+04F8">>, title |-> <<"U+04F8">>],
      [c |-> "U+04F9", lower |-> <<"U+04F9">>, upper |-> <<"U+04F8">>, title |-> <<"U+04F8">>],
      [c |-> "U+04FA", lower |-> <<"U+04FB">>, upper |-> <<"U+04FA">>, title |-> <<"U+04FA">>],
      [c |-> "U+04FB", lower |-> <<"U+04FB">>, upper |-> <<"U+04FA">>, title |-> <<"U+04FA">>],
      [c |-> "U+04FC", lower |-> <<"U+04FD">>, upper |-> <<"U+04FC">>, title |-> <<"U+04FC">>],
      [c |-> "U+04FD", lower |-> <<"U+04FD">>, upper |-> <<"U+04FC">>, title |-> <<"U+04FC">>],
      [c |-> "U+04FE", lower |-> <<"U+04FF">>, upper |-> <<"U+04FE">>, title |-> <<"U+04FE">>],
      [c |-> "U+04FF", lower |-> <<"U+04FF">>, upper |-> <<"U+04FE">>, title |-> <<"U+04FE">>],
      [c |-> "U+0500", lower |-> <<"U+0501">>, upper |-> <<"U+0500">>, title |-> <<"U+0500">>],
      [c |-> "U+0501", lower |-> <<"U+0501">>, upper |-> <<"U+0500">>, title |-> <<"U+0500">>],
      [c |-> "U+0502", lower |-> <<"U+0503">>, upper |-> <<"U+0502">>, title |-> <<"U+0502">>],
      [c |-> "U+0503", lower |-> <<"U+0503">>, upper |-> <<"U+0502">>, title |-> <<"U+0502">>],
      [c |-> "U+0504", lower |-> <<"U+0505">>, upper |-> <<"U+0504">>, title |-> <<"U+0504">>],
      [c |-> "U+0505", lower |-> <<"U+0505">>, upper |-> <<"U+0504">>, title |-> <<"U+0504">>],
      [c |-> "U+0506", lower |-> <<"U+0507">>, upper |-> <<"U+0506">>, title |-> <<"U+0506">>],
      [c |-> "U+0507", lower |-> <<"U+0507">>, upper |-> <<"U+0506">>, title |-> <<"U+0506">>],
      [c |-> "U+0508", lower |-> <<"U+0509">>, upper |-> <<"U+0508">>, title |-> <<"U+0508">>],
      [c |-> "U+0509", lower |-> <<"U+0509">>, upper |-> <<"U+0508">>, title |-> <<"U+0508">>],
      [c |-> "U+050A", lower |-> <<"U+050B">>, upper |-> <<"U+050A">>, title |-> <<"U+050A">>],
      [c |-> "U+050B", lower |-> <<"U+050B">>, upper |-> <<"U+050A">>, title |-> <<"U+050A">>],
      [c |-> "U+050C", lower |-> <<"U+050D">>, upper |-> <<"U+050C">>, title |-> <<"U+050C">>],
      [c |-> "U+050D", lower |-> <<"U+050D">>, upper |-> <<"U+050C">>, title |-> <<"U+050C">>],
      [c |-> "U+050E", lower |-> <<"U+050F">>, upper |-> <<"U+050E">>, title |-> <<"U+050E">>],
      [c |-> "U+050F", lower |-> <<"U+050F">>, upper |-> <<"U+050E">>, title |-> <<"U+050E">>],
      [c |-> "U+0510", lower |-> <<"U+0511">>, upper |-> <<"U+0510">>, title |-> <<"U+0510">>],
      [c |-> "U+0511", lower |-> <<"U+0511">>, upper |-> <<"U+0510">>, title |-> <<"U+0510">>],
      [c |-> "U+0512", lower |-> <<"U+0513">>, upper |-> <<"U+0512">>, title |-> <<"U+0512">>],
      [c |-> "U+0513", lower |-> <<"U+0513">>, upper |-> <<"U+0512">>, title |-> <<"U+0512">>],
      [c |-> "U+0514", lower |-> <<"U+0515">>, upper |-> <<"U+0514">>, title |-> <<"U+0514">>],
      [c |-> "U+0515", lower |-> <<"U+0515">>, upper |-> <<"U+0514">>, title |-> <<"U+0514">>],
      [c |-> "U+0516", lower |-> <<"U+0517">>, upper |-> <<"U+0516">>, title |-> <<"U+0516">>],
      [c |-> "U+0517", lower |-> <<"U+0517">>, upper |-> <<"U+0516">>, title |-> <<"U+0516">>],
      [c |-> "U+0518", lower |-> <<"U+0519">>, upper |-> <<"U+0518">>, title |-> <<"U+0518">>],
      [c |-> "U+0519", lower |-> <<"U+0519">>, upper |-> <<"U+0518">>, title |-> <<"U+0518">>],
      [c |-> "U+051A", lower |-> <<"U+051B">>, upper |-> <<"U+051A">>, title |-> <<"U+051A">>],
      [c |-> "U+051B", lower |-> <<"U+051B">>, upper |-> <<"U+051A">>, title |-> <<"U+051A">>],
      [c |-> "U+051C", lower |-> <<"U+051D">>, upper |-> <<"U+051C">>, title |-> <<"U+051C">>],
      [c |-> "U+051D", lower |-> <<"U+051D">>, upper |-> <<"U+051C">>, title |-> <<"U+051C">>],
      [c |-> "U+051E", lower |-> <<"U+051F">>, upper |-> <<"U+051E">>, title |-> <<"U+051E">>],
      [c |-> "U+051F", lower |-> <<"U+051F">>, upper |-> <<"U+051E">>, title |-> <<"U+051E">>],
      [c |-> "U+0520", lower |-> <<"U+0521">>, upper |-> <<"U+0520">>, title |-> <<"U+0520">>],
      [c |-> "U+0521", lower |-> <<"U+0521">>, upper |-> <<"U+0520">>, title |-> <<"U+0520">>],
      [c |-> "U+0522", lower |-> <<"U+0523">>, upper |-> <<"U+0522">>, title |-> <<"U+0522">>],
      [c |-> "U+0523", lower |-> <<"U+0523">>, upper |-> <<"U+0522">>, title |-> <<"U+0522">>],
      [c |-> "U+0524", lower |-> <<"U+0525">>, upper |-> <<"U+0524">>, title |-> <<"U+0524">>],
      [c |-> "U+0525", lower |-> <<"U+0525">>, upper |-> <<"U+0524">>, title |-> <<"U+0524">>],
      [c |-> "U+0526", lower |-> <<"U+0527">>, upper |-> <<"U+0526">>, title |-> <<"U+0526">>],
      [c |-> "U+0527", lower |-> <<"U+0527">>, upper |-> <<"U+0526">>, title |-> <<"U+0526">>],
      [c |-> "U+0528", lower |-> <<"U+0529">>, upper |-> <<"U+0528">>, title |-> <<"U+0528">>],
      [c |-> "U+0529", lower |-> <<"U+0529">>, upper |-> <<"U+0528">>, title |-> <<"U+0528">>],
      [c |-> "U+052A", lower |-> <<"U+052B">>, upper |-> <<"U+052A">>, title |-> <<"U+052A">>],
      [c |-> "U+052B", lower |-> <<"U+052B">>, upper |-> <<"U+052A">>, title |-> <<"U+052A">>],
      [c |-> "U+052C", lower |-> <<"U+052D">>, upper |-> <<"U+052C">>, title |-> <<"U+052C">>],
      [c |-> "U+052D", lower |-> <<"U+052D">>, upper |-> <<"U+052C">>, title |-> <<"U+052C">>],
      [c |-> "U+052E", lower |-> <<"U+052F">>, upper |-> <<"U+052E">>, title |-> <<"U+052E">>],
      [c |-> "U+052F", lower |-> <<"U+052F">>, upper |-> <<"U+052E">>, title |-> <<"U+052E">>],
      [c |-> "U+0531", lower |-> <<"U+0561">>, upper |-> <<"U+0531">>, title |-> <<"U+0531">>],
      [c |-> "U+0532", lower |-> <<"U+0562">>, upper |-> <<"U+0532">>, title |-> <<"U+0532">>],
      [c |-> "U+0533", lower |-> <<"U+0563">>, upper |-> <<"U+0533">>, title |-> <<"U+0533">>],
      [c |-> "U+0534", lower |-> <<"U+0564">>, upper |-> <<"U+0534">>, title |-> <<"U+0534">>],
      [c |-> "U+0535", lower |-> <<"U+0565">>, upper |-> <<"U+0535">>, title |-> <<"U+0535">>],
      [c |-> "U+0536", lower |-> <<"U+0566">>, upper |-> <<"U+0536">>, title |-> <<"U+0536">>],
      [c |-> "U+0537", lower |-> <<"U+0567">>, upper |-> <<"U+0537">>, title |-> <<"U+0537">>],
      [c |-> "U+0538", lower |-> <<"U+0568">>, upper |-> <<"U+0538">>, title |-> <<"U+0538">>],
      [c |-> "U+0539", lower |-> <<"U+0569">>, upper |-> <<"U+0539">>, title |-> <<"U+0539">>],
      [c |-> "U+053A", lower |-> <<"U+056A">>, upper |-> <<"U+053A">>, title |-> <<"U+053A">>],
      [c |-> "U+053B", lower |-> <<"U+056B">>, upper |-> <<"U+053B">>, title |-> <<"U+053B">>],
      [c |-> "U+053C", lower |-> <<"U+056C">>, upper |-> <<"U+053C">>, title |-> <<"U+053C">>],
      [c |-> "U+053D", lower |-> <<"U+056D">>, upper |-> <<"U+053D">>, title |-> <<"U+053D">>],
      [c |-> "U+053E", lower |-> <<"U+056E">>, upper |-> <<"U+053E">>, title |-> <<"U+053E">>],
      [c |-> "U+053F", lower |-> <<"U+056F">>, upper |-> <<"U+053F">>, title |-> <<"U+053F">>],
      [c |-> "U+0540", lower |-> <<"U+0570">>, upper |-> <<"U+0540">>, title |-> <<"U+0540">>],
      [c |-> "U+0541", lower |-> <<"U+0571">>, upper |-> <<"U+0541">>, title |-> <<"U+0541">>],
      [c |-> "U+0542", lower |-> <<"U+0572">>, upper |-> <<"U+0542">>, title |-> <<"U+0542">>],
      [c |-> "U+0543", lower |-> <<"U+0573">>, upper |-> <<"U+0543">>, title |-> <<"U+0543">>],
      [c |-> "U+0544", lower |-> <<"U+0574">>, upper |-> <<"U+0544">>, title |-> <<"U+0544">>],
      [c |-> "U+0545", lower |-> <<"U+0575">>, upper |-> <<"U+0545">>, title |-> <<"U+0545">>],
      [c |-> "U+0546", lower |-> <<"U+0576">>, upper |-> <<"U+0546">>, title |-> <<"U+0546">>],
      [c |-> "U+0547", lower |-> <<"U+0577">>, upper |-> <<"U+0547">>, title |-> <<"U+0547">>],
      [c |-> "U+0548", lower |-> <<"U+0578">>, upper |-> <<"U+0548">>, title |-> <<"U+0548">>],
      [c |-> "U+0549", lower |-> <<"U+0579">>, upper |-> <<"U+0549">>, title |-> <<"U+0549">>],
      [c |-> "U+054A", lower |-> <<"U+057A">>, upper |-> <<"U+054A">>, title |-> <<"U+054A">>],
      [c |-> "U+054B", lower |-> <<"U+057B">>, upper |-> <<"U+054B">>, title |-> <<"U+054B">>],
      [c |-> "U+054C", lower |-> <<"U+057C">>, upper |-> <<"U+054C">>, title |-> <<"U+054C">>],
      [c |-> "U+054D", lower |-> <<"U+057D">>, upper |-> <<"U+054D">>, title |-> <<"U+054D">>],
      [c |-> "U+054E", lower |-> <<"U+057E">>, upper |-> <<"U+054E">>, title |-> <<"U+054E">>],
      [c |-> "U+054F", lower |-> <<"U+057F">>, upper |-> <<"U+054F">>, title |-> <<"U+054F">>],
      [c |-> "U+0550", lower |-> <<"U+0580">>, upper |-> <<"U+0550">>, title |-> <<"U+0550">>],
      [c |-> "U+0551", lower |-> <<"U+0581">>, upper |-> <<"U+0551">>, title |-> <<"U+0551">>],
      [c |-> "U+0552", lower |-> <<"U+0582">>, upper |-> <<"U+0552">>, title |-> <<"U+0552">>],
      [c |-> "U+0553", lower |-> <<"U+0583">>, upper |-> <<"U+0553">>, title |-> <<"U+0553">>],
      [c |-> "U+0554", lower |-> <<"U+0584">>, upper |-> <<"U+0554">>, title |-> <<"U+0554">>],
      [c |-> "U+0555", lower |-> <<"U+0585">>, upper |-> <<"U+0555">>, title |-> <<"U+0555">>],
      [c |-> "U+0556", lower |-> <<"U+0586">>, upper |-> <<"U+0556">>, title |-> <<"U+0556">>],
      [c |-> "U+0561", lower |-> <<"U+0561">>, upper |-> <<"U+0531">>, title |-> <<"U+0531">>],
      [c |-> "U+0562", lower |-> <<"U+0562">>, upper |-> <<"U+0532">>, title |-> <<"U+0532">>],
      [c |-> "U+0563", lower |-> <<"U+0563">>, upper |-> <<"U+0533">>, title |-> <<"U+0533">>],
      [c |-> "U+0564", lower |-> <<"U+0564">>, upper |-> <<"U+0534">>, title |-> <<"U+0534">>],
      [c |-> "U+0565", lower |-> <<"U+0565">>, upper |-> <<"U+0535">>, title |-> <<"U+0535">>],
      [c |-> "U+0566", lower |-> <<"U+0566">>, upper |-> <<"U+0536">>, title |-> <<"U+0536">>],
      [c |-> "U+0567", lower |-> <<"U+0567">>, upper |-> <<"U+0537">>, title |-> <<"U+0537">>],
      [c |-> "U+0568", lower |-> <<"U+0568">>, upper |-> <<"U+0538">>, title |-> <<"U+0538">>],
      [c |-> "U+0569", lower |-> <<"U+0569">>, upper |-> <<"U+0539">>, title |-> <<"U+0539">>],
      [c |-> "U+056A", lower |-> <<"U+056A">>, upper |-> <<"U+053A">>, title |-> <<"U+053A">>],
      [c |-> "U+056B", lower |-> <<"U+056B">>, upper |-> <<"U+053B">>, title |-> <<"U+053B">>],
      [c |-> "U+056C", lower |-> <<"U+056C">>, upper |-> <<"U+053C">>, title |-> <<"U+053C">>],
      [c |-> "U+056D", lower |-> <<"U+056D">>, upper |-> <<"U+053D">>, title |-> <<"U+053D">>],
      [c |-> "U+056E", lower |-> <<"U+056E">>, upper |-> <<"U+053E">>, title |-> <<"U+053E">>],
      [c |-> "U+056F", lower |-> <<"U+056F">>, upper |-> <<"U+053F">>, title |-> <<"U+053F">>],
      [c |-> "U+0570", lower |-> <<"U+0570">>, upper |-> <<"U+0540">>, title |-> <<"U+0540">>],
      [c |-> "U+0571", lower |-> <<"U+0571">>, upper |-> <<"U+0541">>, title |-> <<"U+0541">>],
      [c |-> "U+0572", lower |-> <<"U+0572">>, upper |-> <<"U+0542">>, title |-> <<"U+0542">>],
      [c |-> "U+0573", lower |-> <<"U+0573">>, upper |-> <<"U+0543">>, title |-> <<"U+0543">>],
      [c |-> "U+0574", lower |-> <<"U+0574">>, upper |-> <<"U+0544">>, title |-> <<"U+0544">>],
      [c |-> "U+0575", lower |-> <<"U+0575">>, upper |-> <<"U+0545">>, title |-> <<"U+0545">>],
      [c |-> "U+0576", lower |-> <<"U+0576">>, upper |-> <<"U+0546">>, title |-> <<"U+0546">>],
      [c |-> "U+0577", lower |-> <<"U+0577">>, upper |-> <<"U+0547">>, title |-> <<"U+0547">>],
      [c |-> "U+0578", lower |-> <<"U+0578">>, upper |-> <<"U+0548">>, title |-> <<"U+0548">>],
      [c |-> "U+0579", lower |-> <<"U+0579">>, upper |-> <<"U+0549">>, title |-> <<"U+0549">>],
      [c |-> "U+057A", lower |-> <<"U+057A">>, upper |-> <<"U+054A">>, title |-> <<"U+054A">>],
      [c |-> "U+057B", lower |-> <<"U+057B">>, upper |-> <<"U+054B">>, title |-> <<"U+054B">>],
      [c |-> "U+057C", lower |-> <<"U+057C">>, upper |-> <<"U+054C">>, title |-> <<"U+054C">>],
      [c |-> "U+057D", lower |-> <<"U+057D">>, upper |-> <<"U+054D">>, title |-> <<"U+054D">>],
      [c |-> "U+057E", lower |-> <<"U+057E">>, upper |-> <<"U+054E">>, title |-> <<"U+054E">>],
      [c |-> "U+057F", lower |-> <<"U+057F">>, upper |-> <<"U+054F">>, title |-> <<"U+054F">>],
      [c |-> "U+0580", lower |-> <<"U+0580">>, upper |-> <<"U+0550">>, title |-> <<"U+0550">>],
      [c |-> "U+0581", lower |-> <<"U+0581">>, upper |-> <<"U+0551">>, title |-> <<"U+0551">>],
      [c |-> "U+0582", lower |-> <<"U+0582">>, upper |-> <<"U+0552">>, title |-> <<"U+0552">>],
      [c |-> "U+0583", lower |-> <<"U+0583">>, upper |-> <<"U+0553">>, title |-> <<"U+0553">>],
      [c |-> "U+0584", lower |-> <<"U+0584">>, upper |-> <<"U+0554">>, title |-> <<"U+0554">>],
      [c |-> "U+0585", lower |-> <<"U+0585">>, upper |-> <<"U+0555">>, title |-> <<"U+0555">>],
      [c |-> "U+0586", lower |-> <<"U+0586">>, upper |-> <<"U+0556">>, title |-> <<"U+0556">>],
      [c |-> "U+0587", lower |-> <<"U+0587">>, upper |-> <<"U+0535","U+0552">>, title |-> <<"U+0535","U+0582">>],
      [c |-> "U+10A0", lower |-> <<"U+2D00">>, upper |-> <<"U+10A0">>, title |-> <<"U+10A0">>],
      [c |-> "U+10A1", lower |-> <<"U+2D01">>, upper |-> <<"U+10A1">>, title |-> <<"U+10A1">>],
      [c |-> "U+10A2", lower |-> <<"U+2D02">>, upper |-> <<"U+10A2">>, title |-> <<"U+10A2">>],
      [c |-> "U+10A3", lower |-> <<"U+2D03">>, upper |-> <<"U+10A3">>, title |-> <<"U+10A3">>],
      [c |-> "U+10A4", lower |-> <<"U+2D04">>, upper |-> <<"U+10A4">>, title |-> <<"U+10A4">>],
      [c |-> "U+10A5", lower |-> <<"U+2D05">>, upper |-> <<"U+10A5">>, title |-> <<"U+10A5">>],
      [c |-> "U+10A6", lower |-> <<"U+2D06">>, upper |-> <<"U+10A6">>, title |-> <<"U+10A6">>],
      [c |-> "U+10A7", lower |-> <<"U+2D07">>, upper |-> <<"U+10A7">>, title |-> <<"U+10A7">>],
      [c |-> "U+10A8", lower |-> <<"U+2D08">>, upper |-> <<"U+10A8">>, title |-> <<"U+10A8">>],
      [c |-> "U+10A9", lower |-> <<"U+2D09">>, upper |-> <<"U+10A9">>, title |-> <<"U+10A9">>],
      [c |-> "U+10AA", lower |-> <<"U+2D0A">>, upper |-> <<"U+10AA">>, title |-> <<"U+10AA">>],
      [c |-> "U+10AB", lower |-> <<"U+2D0B">>, upper |-> <<"U+10AB">>, title |-> <<"U+10AB">>],
      [c |-> "U+10AC", lower |-> <<"U+2D0C">>, upper |-> <<"U+10AC">>, title |-> <<"U+10AC">>],
      [c |-> "U+10AD", lower |-> <<"U+2D0D">>, upper |-> <<"U+10AD">>, title |-> <<"U+10AD">>],
      [c |-> "U+10AE", lower |-> <<"U+2D0E">>, upper |-> <<"U+10AE">>, title |-> <<"U+10AE">>],
      [c |-> "U+10AF", lower |-> <<"U+2D0F">>, upper |-> <<"U+10AF">>, title |-> <<"U+10AF">>],
      [c |-> "U+10B0", lower |-> <<"U+2D10">>, upper |-> <<"U+10B0">>, title |-> <<"U+10B0">>],
      [c |-> "U+10B1", lower |-> <<"U+2D11">>, upper |-> <<"U+10B1">>, title |-> <<"U+10B1">>],
      [c |-> "U+10B2", lower |-> <<"U+2D12">>, upper |-> <<"U+10B2">>, title |-> <<"U+10B2">>],
      [c |-> "U+10B3", lower |-> <<"U+2D13">>, upper |-> <<"U+10B3">>, title |-> <<"U+10B3">>],
      [c |-> "U+10B4", lower |-> <<"U+2D14">>, upper |-> <<"U+10B4">>, title |-> <<"U+10B4">>],
      [c |-> "U+10B5", lower |-> <<"U+2D15">>, upper |-> <<"U+10B5">>, title |-> <<"U+10B5">>],
      [c |-> "U+10B6", lower |-> <<"U+2D16">>, upper |-> <<"U+10B6">>, title |-> <<"U+10B6">>],
      [c |-> "U+10B7", lower |-> <<"U+2D17">>, upper |-> <<"U+10B7">>, title |-> <<"U+10B7">>],
      [c |-> "U+10B8", lower |-> <<"U+2D18">>, upper |-> <<"U+10B8">>, title |-> <<"U+10B8">>],
      [c |-> "U+10B9", lower |-> <<"U+2D19">>, upper |-> <<"U+10B9">>, title |-> <<"U+10B9">>],
      [c |-> "U+10BA", lower |-> <<"U+2D1A">>, upper |-> <<"U+10BA">>, title |-> <<"U+10BA">>],
      [c |-> "U+10BB", lower |-> <<"U+2D1B">>, upper |-> <<"U+10BB">>, title |-> <<"U+10BB">>],
      [c |-> "U+10BC", lower |-> <<"U+2D1C">>, upper |-> <<"U+10BC">>, title |-> <<"U+10BC">>],
      [c |-> "U+10BD", lower |-> <<"U+2D1D">>, upper |-> <<"U+10BD">>, title |-> <<"U+10BD">>],
      [c |-> "U+10BE", lower |-> <<"U+2D1E">>, upper |-> <<"U+10BE">>, title |-> <<"U+10BE">>],
      [c |-> "U+10BF", lower |-> <<"U+2D1F">>, upper |-> <<"U+10BF">>, title |-> <<"U+10BF">>],
      [c |-> "U+10C0", lower |-> <<"U+2D20">>, upper |-> <<"U+10C0">>, title |-> <<"U+10C0">>],
      [c |-> "U+10C1", lower |-> <<"U+2D21">>, upper |-> <<"U+10C1">>, title |-> <<"U+10C1">>],
      [c |-> "U+10C2", lower |-> <<"U+2D22">>, upper |-> <<"U+10C2">>, title |-> <<"U+10C2">>],
      [c |-> "U+10C3", lower |-> <<"U+2D23">>, upper |-> <<"U+10C3">>, title |-> <<"U+10C3">>],
      [c |-> "U+10C4", lower |-> <<"U+2D24">>, upper |-> <<"U+10C4">>, title |-> <<"U+10C4">>],
      [c |-> "U+10C5", lower |-> <<"U+2D25">>, upper |-> <<"U+10C5">>, title |-> <<"U+10C5">>],
      [c |-> "U+10C7", lower |-> <<"U+2D27">>, upper |-> <<"U+10C7">>, title |-> <<"U+10C7">>],
      [c |-> "U+10CD", lower |-> <<"U+2D2D">>, upper |-> <<"U+10CD">>, title |-> <<"U+10CD">>],
      [c |-> "U+10D0", lower |-> <<"U+10D0">>, upper |-> <<"U+1C90">>, title |-> <<"U+10D0">>],
      [c |-> "U+10D1", lower |-> <<"U+10D1">>, upper |-> <<"U+1C91">>, title |-> <<"U+10D1">>],
      [c |-> "U+10D2", lower |-> <<"U+10D2">>, upper |-> <<"U+1C92">>, title |-> <<"U+10D2">>],
      [c |-> "U+10D3", lower |-> <<"U+10D3">>, upper |-> <<"U+1C93">>, title |-> <<"U+10D3">>],
      [c |-> "U+10D4", lower |-> <<"U+10D4">>, upper |-> <<"U+1C94">>, title |-> <<"U+10D4">>],
      [c |-> "U+10D5", lower |-> <<"U+10D5">>, upper |-> <<"U+1C95">>, title |-> <<"U+10D5">>],
      [c |-> "U+10D6", lower |-> <<"U+10D6">>, upper |-> <<"U+1C96">>, title |-> <<"U+10D6">>],
      [c |-> "U+10D7", lower |-> <<"U+10D7">>, upper |-> <<"U+1C97">>, title |-> <<"U+10D7">>],
      [c |-> "U+10D8", lower |-> <<"U+10D8">>, upper |-> <<"U+1C98">>, title |-> <<"U+10D8">>],
      [c |-> "U+10D9", lower |-> <<"U+10D9">>, upper |-> <<"U+1C99">>, title |-> <<"U+10D9">>],
      [c |-> "U+10DA", lower |-> <<"U+10DA">>, upper |-> <<"U+1C9A">>, title |-> <<"U+10DA">>],
      [c |-> "U+10DB", lower |-> <<"U+10DB">>, upper |-> <<"U+1C9B">>, title |-> <<"U+10DB">>],
      [c |-> "U+10DC", lower |-> <<"U+10DC">>, upper |-> <<"U+1C9C">>, title |-> <<"U+10DC">>],
      [c |-> "U+10DD", lower |-> <<"U+10DD">>, upper |-> <<"U+1C9D">>, title |-> <<"U+10DD">>],
      [c |-> "U+10DE", lower |-> <<"U+10DE">>, upper |-> <<"U+1C9E">>, title |-> <<"U+10DE">>],
      [c |-> "U+10DF", lower |-> <<"U+10DF">>, upper |-> <<"U+1C9F">>, title |-> <<"U+10DF">>],
      [c |-> "U+10E0", lower |-> <<"U+10E0">>, upper |-> <<"U+1CA0">>, title |-> <<"U+10E0">>],
      [c |-> "U+10E1", lower |-> <<"U+10E1">>, upper |-> <<"U+1CA1">>, title |-> <<"U+10E1">>],
      [c |-> "U+10E2", lower |-> <<"U+10E2">>, upper |-> <<"U+1CA2">>, title |-> <<"U+10E2">>],
      [c |-> "U+10E3", lower |-> <<"U+10E3">>, upper |-> <<"U+1CA3">>, title |-> <<"U+10E3">>],
      [c |-> "U+10E4", lower |-> <<"U+10E4">>, upper |-> <<"U+1CA4">>, title |-> <<"U+10E4">>],
      [c |-> "U+10E5", lower |-> <<"U+10E5">>, upper |-> <<"U+1CA5">>, title |-> <<"U+10E5">>],
      [c |-> "U+10E6", lower |-> <<"U+10E6">>, upper |-> <<"U+1CA6">>, title |-> <<"U+10E6">>],
      [c |-> "U+10E7", lower |-> <<"U+10E7">>, upper |-> <<"U+1CA7">>, title |-> <<"U+10E7">>],
      [c |-> "U+10E8", lower |-> <<"U+10E8">>, upper |-> <<"U+1CA8">>, title |-> <<"U+10E8">>],
      [c |-> "U+10E9", lower |-> <<"U+10E9">>, upper |-> <<"U+1CA9">>, title |-> <<"U+10E9">>],
      [c |-> "U+10EA", lower |-> <<"U+10EA">>, upper |-> <<"U+1CAA">>, title |-> <<"U+10EA">>],
      [c |-> "U+10EB", lower |-> <<"U+10EB">>, upper |-> <<"U+1CAB">>, title |-> <<"U+10EB">>],
      [c |-> "U+10EC", lower |-> <<"U+10EC">>, upper |-> <<"U+1CAC">>, title |-> <<"U+10EC">>],
      [c |-> "U+10ED", lower |-> <<"U+10ED">>, upper |-> <<"U+1CAD">>, title |-> <<"U+10ED">>],
      [c |-> "U+10EE", lower |-> <<"U+10EE">>, upper |-> <<"U+1CAE">>, title |-> <<"U+10EE">>],
      [c |-> "U+10EF", lower |-> <<"U+10EF">>, upper |-> <<"U+1CAF">>, title |-> <<"U+10EF">>],
      [c |-> "U+10F0", lower |-> <<"U+10F0">>, upper |-> <<"U+1CB0">>, title |-> <<"U+10F0">>],
      [c |-> "U+10F1", lower |-> <<"U+10F1">>, upper |-> <<"U+1CB1">>, title |-> <<"U+10F1">>],
      [c |-> "U+10F2", lower |-> <<"U+10F2">>, upper |-> <<"U+1CB2">>, title |-> <<"U+10F2">>],
      [c |-> "U+10F3", lower |-> <<"U+10F3">>, upper |-> <<"U+1CB3">>, title |-> <<"U+10F3">>],
      [c |-> "U+10F4", lower |-> <<"U+10F4">>, upper |-> <<"U+1CB4">>, title |-> <<"U+10F4">>],
      [c |-> "U+10F5", lower |-> <<"U+10F5">>, upper |-> <<"U+1CB5">>, title |-> <<"U+10F5">>],
      [c |-> "U+10F6", lower |-> <<"U+10F6">>, upper |-> <<"U+1CB6">>, title |-> <<"U+10F6">>],
      [c |-> "U+10F7", lower |-> <<"U+10F7">>, upper |-> <<"U+1CB7">>, title |-> <<"U+10F7">>],
      [c |-> "U+10F8", lower |-> <<"U+10F8">>, upper |-> <<"U+1CB8">>, title |-> <<"U+10F8">>],
      [c |-> "U+10F9", lower |-> <<"U+10F9">>, upper |-> <<"U+1CB9">>, title |-> <<"U+10F9">>],
      [c |-> "U+10FA", lower |-> <<"U+10FA">>, upper |-> <<"U+1CBA">>, title |-> <<"U+10FA">>],
      [c |-> "U+10FD", lower |-> <<"U+10FD">>, upper |-> <<"U+1CBD">>, title |-> <<"U+10FD">>],
      [c |-> "U+10FE", lower |-> <<"U+10FE">>, upper |-> <<"U+1CBE">>, title |-> <<"U+10FE">>],
      [c |-> "U+10FF", lower |-> <<"U+10FF">>, upper |-> <<"U+1CBF">>, title |-> <<"U+10FF">>],
      [c |-> "U+13A0", lower |-> <<"U+AB70">>, upper |-> <<"U+13A0">>, title |-> <<"U+13A0">>],
      [c |-> "U+13A1", lower |-> <<"U+AB71">>, upper |-> <<"U+13A1">>, title |-> <<"U+13A1">>],
      [c |-> "U+13A2", lower |-> <<"U+AB72">>, upper |-> <<"U+13A2">>, title |-> <<"U+13A2">>],
      [c |-> "U+13A3", lower |-> <<"U+AB73">>, upper |-> <<"U+13A3">>, title |-> <<"U+13A3">>],
      [c |-> "U+13A4", lower |-> <<"U+AB74">>, upper |-> <<"U+13A4">>, title |-> <<"U+13A4">>],
      [c |-> "U+13A5", lower |-> <<"U+AB75">>, upper |-> <<"U+13A5">>, title |-> <<"U+13A5">>],
      [c |-> "U+13A6", lower |-> <<"U+AB76">>, upper |-> <<"U+13A6">>, title |-> <<"U+13A6">>],
      [c |-> "U+13A7", lower |-> <<"U+AB77">>, upper |-> <<"U+13A7">>, title |-> <<"U+13A7">>],
      [c |-> "U+13A8", lower |-> <<"U+AB78">>, upper |-> <<"U+13A8">>, title |-> <<"U+13A8">>],
      [c |-> "U+13A9", lower |-> <<"U+AB79">>, upper |-> <<"U+13A9">>, title |-> <<"U+13A9">>],
      [c |-> "U+13AA", lower |-> <<"U+AB7A">>, upper |-> <<"U+13AA">>, title |-> <<"U+13AA">>],
      [c |-> "U+13AB", lower |-> <<"U+AB7B">>, upper |-> <<"U+13AB">>, title |-> <<"U+13AB">>],
      [c |-> "U+13AC", lower |-> <<"U+AB7C">>, upper |-> <<"U+13AC">>, title |-> <<"U+13AC">>],
      [c |-> "U+13AD", lower |-> <<"U+AB7D">>, upper |-> <<"U+13AD">>, title |-> <<"U+13AD">>],
      [c |-> "U+13AE", lower |-> <<"U+AB7E">>, upper |-> <<"U+13AE">>, title |-> <<"U+13AE">>],
      [c |-> "U+13AF", lower |-> <<"U+AB7F">>, upper |-> <<"U+13AF">>, title |-> <<"U+13AF">>],
      [c |-> "U+13B0", lower |-> <<"U+AB80">>, upper |-> <<"U+13B0">>, title |-> <<"U+13B0">>],
      [c |-> "U+13B1", lower |-> <<"U+AB81">>, upper |-> <<"U+13B1">>, title |-> <<"U+13B1">>],
      [c |-> "U+13B2", lower |-> <<"U+AB82">>, upper |-> <<"U+13B2">>, title |-> <<"U+13B2">>],
      [c |-> "U+13B3", lower |-> <<"U+AB83">>, upper |-> <<"U+13B3">>, title |-> <<"U+13B3">>],
      [c |-> "U+13B4", lower |-> <<"U+AB84">>, upper |-> <<"U+13B4">>, title |-> <<"U+13B4">>],
      [c |-> "U+13B5", lower |-> <<"U+AB85">>, upper |-> <<"U+13B5">>, title |-> <<"U+13B5">>],
      [c |-> "U+13B6", lower |-> <<"U+AB86">>, upper |-> <<"U+13B6">>, title |-> <<"U+13B6">>],
      [c |-> "U+13B7", lower |-> <<"U+AB87">>, upper |-> <<"U+13B7">>, title |-> <<"U+13B7">>],
      [c |-> "U+13B8", lower |-> <<"U+AB88">>, upper |-> <<"U+13B8">>, title |-> <<"U+13B8">>],
      [c |-> "U+13B9", lower |-> <<"U+AB89">>, upper |-> <<"U+13B9">>, title |-> <<"U+13B9">>],
      [c |-> "U+13BA", lower |-> <<"U+AB8A">>, upper |-> <<"U+13BA">>, title |-> <<"U+13BA">>],
      [c |-> "U+13BB", lower |-> <<"U+AB8B">>, upper |-> <<"U+13BB">>, title |-> <<"U+13BB">>],
      [c |-> "U+13BC", lower |-> <<"U+AB8C">>, upper |-> <<"U+13BC">>, title |-> <<"U+13BC">>],
      [c |-> "U+13BD", lower |-> <<"U+AB8D">>, upper |-> <<"U+13BD">>, title |-> <<"U+13BD">>],
      [c |-> "U+13BE", lower |-> <<"U+AB8E">>, upper |-> <<"U+13BE">>, title |-> <<"U+13BE">>],
      [c |-> "U+13BF", lower |-> <<"U+AB8F">>, upper |-> <<"U+13BF">>, title |-> <<"U+13BF">>],
      [c |-> "U+13C0", lower |-> <<"U+AB90">>, upper |-> <<"U+13C0">>, title |-> <<"U+13C0">>],
      [c |-> "U+13C1", lower |-> <<"U+AB91">>, upper |-> <<"U+13C1">>, title |-> <<"U+13C1">>],
      [c |-> "U+13C2", lower |-> <<"U+AB92">>, upper |-> <<"U+13C2">>, title |-> <<"U+13C2">>],
      [c |-> "U+13C3", lower |-> <<"U+AB93">>, upper |-> <<"U+13C3">>, title |-> <<"U+13C3">>],
      [c |-> "U+13C4", lower |-> <<"U+AB94">>, upper |-> <<"U+13C4">>, title |-> <<"U+13C4">>],
      [c |-> "U+13C5", lower |-> <<"U+AB95">>, upper |-> <<"U+13C5">>, title |-> <<"U+13C5">>],
      [c |-> "U+13C6", lower |-> <<"U+AB96">>, upper |-> <<"U+13C6">>, title |-> <<"U+13C6">>],
      [c |-> "U+13C7", lower |-> <<"U+AB97">>, upper |-> <<"U+13C7">>, title |-> <<"U+13C7">>],
      [c |-> "U+13C8", lower |-> <<"U+AB98">>, upper |-> <<"U+13C8">>, title |-> <<"U+13C8">>],
      [c |-> "U+13C9", lower |-> <<"U+AB99">>, upper |-> <<"U+13C9">>, title |-> <<"U+13C9">>],
      [c |-> "U+13CA", lower |-> <<"U+AB9A">>, upper |-> <<"U+13CA">>, title |-> <<"U+13CA">>],
      [c |-> "U+13CB", lower |-> <<"U+AB9B">>, upper |-> <<"U+13CB">>, title |-> <<"U+13CB">>],
      [c |-> "U+13CC", lower |-> <<"U+AB9C">>, upper |-> <<"U+13CC">>, title |-> <<"U+13CC">>],
      [c |-> "U+13CD", lower |-> <<"U+AB9D">>, upper |-> <<"U+13CD">>, title |-> <<"U+13CD">>],
      [c |-> "U+13CE", lower |-> <<"U+AB9E">>, upper |-> <<"U+13CE">>, title |-> <<"U+13CE">>],
      [c |-> "U+13CF", lower |-> <<"U+AB9F">>, upper |-> <<"U+13CF">>, title |-> <<"U+13CF">>],
      [c |-> "U+13D0", lower |-> <<"U+ABA0">>, upper |-> <<"U+13D0">>, title |-> <<"U+13D0">>],
      [c |-> "U+13D1", lower |-> <<"U+ABA1">>, upper |-> <<"U+13D1">>, title |-> <<"U+13D1">>],
      [c |-> "U+13D2", lower |-> <<"U+ABA2">>, upper |-> <<"U+13D2">>, title |-> <<"U+13D2">>],
      [c |-> "U+13D3", lower |-> <<"U+ABA3">>, upper |-> <<"U+13D3">>, title |-> <<"U+13D3">>],
      [c |-> "U+13D4", lower |-> <<"U+ABA4">>, upper |-> <<"U+13D4">>, title |-> <<"U+13D4">>],
      [c |-> "U+13D5", lower |-> <<"U+ABA5">>, upper |-> <<"U+13D5">>, title |-> <<"U+13D5">>],
      [c |-> "U+13D6", lower |-> <<"U+ABA6">>, upper |-> <<"U+13D6">>, title |-> <<"U+13D6">>],
      [c |-> "U+13D7", lower |-> <<"U+ABA7">>, upper |-> <<"U+13D7">>, title |-> <<"U+13D7">>],
      [c |-> "U+13D8", lower |-> <<"U+ABA8">>, upper |-> <<"U+13D8">>, title |-> <<"U+13D8">>],
      [c |-> "U+13D9", lower |-> <<"U+ABA9">>, upper |-> <<"U+13D9">>, title |-> <<"U+13D9">>],
      [c |-> "U+13DA", lower |-> <<"U+ABAA">>, upper |-> <<"U+13DA">>, title |-> <<"U+13DA">>],
      [c |-> "U+13DB", lower |-> <<"U+ABAB">>, upper |-> <<"U+13DB">>, title |-> <<"U+13DB">>],
      [c |-> "U+13DC", lower |-> <<"U+ABAC">>, upper |-> <<"U+13DC">>, title |-> <<"U+13DC">>],
      [c |-> "U+13DD", lower |-> <<"U+ABAD">>, upper |-> <<"U+13DD">>, title |-> <<"U+13DD">>],
      [c |-> "U+13DE", lower |-> <<"U+ABAE">>, upper |-> <<"U+13DE">>, title |-> <<"U+13DE">>],
      [c |-> "U+13DF", lower |-> <<"U+ABAF">>, upper |-> <<"U+13DF">>, title |-> <<"U+13DF">>],
      [c |-> "U+13E0", lower |-> <<"U+ABB0">>, upper |-> <<"U+13E0">>, title |-> <<"U+13E0">>],
      [c |-> "U+13E1", lower |-> <<"U+ABB1">>, upper |-> <<"U+13E1">>, title |-> <<"U+13E1">>],
      [c |-> "U+13E2", lower |-> <<"U+ABB2">>, upper |-> <<"U+13E2">>, title |-> <<"U+13E2">>],
      [c |-> "U+13E3", lower |-> <<"U+ABB3">>, upper |-> <<"U+13E3">>, title |-> <<"U+13E3">>],
      [c |-> "U+13E4", lower |-> <<"U+ABB4">>, upper |-> <<"U+13E4">>, title |-> <<"U+13E4">>],
      [c |-> "U+13E5", lower |-> <<"U+ABB5">>, upper |-> <<"U+13E5">>, title |-> <<"U+13E5">>],
      [c |-> "U+13E6", lower |-> <<"U+ABB6">>, upper |-> <<"U+13E6">>, title |-> <<"U+13E6">>],
      [c |-> "U+13E7", lower |-> <<"U+ABB7">>, upper |-> <<"U+13E7">>, title |-> <<"U+13E7">>],
      [c |-> "U+13E8", lower |-> <<"U+ABB8">>, upper |-> <<"U+13E8">>, title |-> <<"U+13E8">>],
      [c |-> "U+13E9", lower |-> <<"U+ABB9">>, upper |-> <<"U+13E9">>, title |-> <<"U+13E9">>],
      [c |-> "U+13EA", lower |-> <<"U+ABBA">>, upper |-> <<"U+13EA">>, title |-> <<"U+13EA">>],
      [c |-> "U+13EB", lower |-> <<"U+ABBB">>, upper |-> <<"U+13EB">>, title |-> <<"U+13EB">>],
      [c |-> "U+13EC", lower |-> <<"U+ABBC">>, upper |-> <<"U+13EC">>, title |-> <<"U+13EC">>],
      [c |-> "U+13ED", lower |-> <<"U+ABBD">>, upper |-> <<"U+13ED">>, title |-> <<"U+13ED">>],
      [c |-> "U+13EE", lower |-> <<"U+ABBE">>, upper |-> <<"U+13EE">>, title |-> <<"U+13EE">>],
      [c |-> "U+13EF", lower |-> <<"U+ABBF">>, upper |-> <<"U+13EF">>, title |-> <<"U+13EF">>],
      [c |-> "U+13F0", lower |-> <<"U+13F8">>, upper |-> <<"U+13F0">>, title |-> <<"U+13F0">>],
      [c |-> "U+13F1", lower |-> <<"U+13F9">>, upper |-> <<"U+13F1">>, title |-> <<"U+13F1">>],
      [c |-> "U+13F2", lower |-> <<"U+13FA">>, upper |-> <<"U+13F2">>, title |-> <<"U+13F2">>],
      [c |-> "U+13F3", lower |-> <<"U+13FB">>, upper |-> <<"U+13F3">>, title |-> <<"U+13F3">>],
      [c |-> "U+13F4", lower |-> <<"U+13FC">>, upper |-> <<"U+13F4">>, title |-> <<"U+13F4">>],
      [c |-> "U+13F5", lower |-> <<"U+13FD">>, upper |-> <<"U+13F5">>, title |-> <<"U+13F5">>],
      [c |-> "U+13F8", lower |-> <<"U+13F8">>, upper |-> <<"U+13F0">>, title |-> <<"U+13F0">>],
      [c |-> "U+13F9", lower |-> <<"U+13F9">>, upper |-> <<"U+13F1">>, title |-> <<"U+13F1">>],
      [c |-> "U+13FA", lower |-> <<"U+13FA">>, upper |-> <<"U+13F2">>, title |-> <<"U+13F2">>],
      [c |-> "U+13FB", lower |-> <<"U+13FB">>, upper |-> <<"U+13F3">>, title |-> <<"U+13F3">>],
      [c |-> "U+13FC", lower |-> <<"U+13FC">>, upper |-> <<"U+13F4">>, title |-> <<"U+13F4">>],
      [c |-> "U+13FD", lower |-> <<"U+13FD">>, upper |-> <<"U+13F5">>, title |-> <<"U+13F5">>],
      [c |-> "U+1C80", lower |-> <<"U+1C80">>, upper |-> <<"U+0412">>, title |-> <<"U+0412">>],
      [c |-> "U+1C81", lower |-> <<"U+1C81">>, upper |-> <<"U+0414">>, title |-> <<"U+0414">>],
      [c |-> "U+1C82", lower |-> <<"U+1C82">>, upper |-> <<"U+041E">>, title |-> <<"U+041E">>],
      [c |-> "U+1C83", lower |-> <<"U+1C83">>, upper |-> <<"U+0421">>, title |-> <<"U+0421">>],
      [c |-> "U+1C84", lower |-> <<"U+1C84">>, upper |-> <<"U+0422">>, title |-> <<"U+0422">>],
      [c |-> "U+1C85", lower |-> <<"U+1C85">>, upper |-> <<"U+0422">>, title |-> <<"U+0422">>],
      [c |-> "U+1C86", lower |-> <<"U+1C86">>, upper |-> <<"U+042A">>, title |-> <<"U+042A">>],
      [c |-> "U+1C87", lower |-> <<"U+1C87">>, upper |-> <<"U+0462">>, title |-> <<"U+0462">>],
      [c |-> "U+1C88", lower |-> <<"U+1C88">>, upper |-> <<"U+A64A">>, title |-> <<"U+A64A">>],
      [c |-> "U+1C90", lower |-> <<"U+10D0">>, upper |-> <<"U+1C90">>, title |-> <<"U+1C90">>],
      [c |-> "U+1C91", lower |-> <<"U+10D1">>, upper |-> <<"U+1C91">>, title |-> <<"U+1C91">>],
      [c |-> "U+1C92", lower |-> <<"U+10D2">>, upper |-> <<"U+1C92">>, title |-> <<"U+1C92">>],
      [c |-> "U+1C93", lower |-> <<"U+10D3">>, upper |-> <<"U+1C93">>, title |-> <<"U+1C93">>],
      [c |-> "U+1C94", lower |-> <<"U+10D4">>, upper |-> <<"U+1C94">>, title |-> <<"U+1C94">>],
      [c |-> "U+1C95", lower |-> <<"U+10D5">>, upper |-> <<"U+1C95">>, title |-> <<"U+1C95">>],
      [c |-> "U+1C96", lower |-> <<"U+10D6">>, upper |-> <<"U+1C96">>, title |-> <<"U+1C96">>],
      [c |-> "U+1C97", lower |-> <<"U+10D7">>, upper |-> <<"U+1C97">>, title |-> <<"U+1C97">>],
      [c |-> "U+1C98", lower |-> <<"U+10D8">>, upper |-> <<"U+1C98">>, title |-> <<"U+1C98">>],
      [c |-> "U+1C99", lower |-> <<"U+10D9">>, upper |-> <<"U+1C99">>, title |-> <<"U+1C99">>],
      [c |-> "U+1C9A", lower |-> <<"U+10DA">>, upper |-> <<"U+1C9A">>, title |-> <<"U+1C9A">>],
      [c |-> "U+1C9B", lower |-> <<"U+10DB">>, upper |-> <<"U+1C9B">>, title |-> <<"U+1C9B">>],
      [c |-> "U+1C9C", lower |-> <<"U+10DC">>, upper |-> <<"U+1C9C">>, title |-> <<"U+1C9C">>],
      [c |-> "U+1C9D", lower |-> <<"U+10DD">>, upper |-> <<"U+1C9D">>, title |-> <<"U+1C9D">>],
      [c |-> "U+1C9E", lower |-> <<"U+10DE">>, upper |-> <<"U+1C9E">>, title |-> <<"U+1C9E">>],
      [c |-> "U+1C9F", lower |-> <<"U+10DF">>, upper |-> <<"U+1C9F">>, title |-> <<"U+1C9F">>],
      [c |-> "U+1CA0", lower |-> <<"U+10E0">>, upper |-> <<"U+1CA0">>, title |-> <<"U+1CA0">>],
      [c |-> "U+1CA1", lower |-> <<"U+10E1">>, upper |-> <<"U+1CA1">>, title |-> <<"U+1CA1">>],
      [c |-> "U+1CA2", lower |-> <<"U+10E2">>, upper |-> <<"U+1CA2">>, title |-> <<"U+1CA2">>],
      [c |-> "U+1CA3", lower |-> <<"U+10E3">>, upper |-> <<"U+1CA3">>, title |-> <<"U+1CA3">>],
      [c |-> "U+1CA4", lower |-> <<"U+10E4">>, upper |-> <<"U+1CA4">>, title |-> <<"U+1CA4">>],
      [c |-> "U+1CA5", lower |-> <<"U+10E5">>, upper |-> <<"U+1CA5">>, title |-> <<"U+1CA5">>],
      [c |-> "U+1CA6", lower |-> <<"U+10E6">>, upper |-> <<"U+1CA6">>, title |-> <<"U+1CA6">>],
      [c |-> "U+1CA7", lower |-> <<"U+10E7">>, upper |-> <<"U+1CA7">>, title |-> <<"U+1CA7">>],
      [c |-> "U+1CA8", lower |-> <<"U+10E8">>, upper |-> <<"U+1CA8">>, title |-> <<"U+1CA8">>],
      [c |-> "U+1CA9", lower |-> <<"U+10E9">>, upper |-> <<"U+1CA9">>, title |-> <<"U+1CA9">>],
      [c |-> "U+1CAA", lower |-> <<"U+10EA">>, upper |-> <<"U+1CAA">>, title |-> <<"U+1CAA">>],
      [c |-> "U+1CAB", lower |-> <<"U+10EB">>, upper |-> <<"U+1CAB">>, title |-> <<"U+1CAB">>],
      [c |-> "U+1CAC", lower |-> <<"U+10EC">>, upper |-> <<"U+1CAC">>, title |-> <<"U+1CAC">>],
      [c |-> "U+1CAD", lower |-> <<"U+10ED">>, upper |-> <<"U+1CAD">>, title |-> <<"U+1CAD">>],
      [c |-> "U+1CAE", lower |-> <<"U+10EE">>, upper |-> <<"U+1CAE">>, title |-> <<"U+1CAE">>],
      [c |-> "U+1CAF", lower |-> <<"U+10EF">>, upper |-> <<"U+1CAF">>, title |-> <<"U+1CAF">>],
      [c |-> "U+1CB0", lower |-> <<"U+10F0">>, upper |-> <<"U+1CB0">>, title |-> <<"U+1CB0">>],
      [c |-> "U+1CB1", lower |-> <<"U+10F1">>, upper |-> <<"U+1CB1">>, title |-> <<"U+1CB1">>],
      [c |-> "U+1CB2", lower |-> <<"U+10F2">>, upper |-> <<"U+1CB2">>, title |-> <<"U+1CB2">>],
      [c |-> "U+1CB3", lower |-> <<"U+10F3">>, upper |-> <<"U+1CB3">>, title |-> <<"U+1CB3">>],
      [c |-> "U+1CB4", lower |-> <<"U+10F4">>, upper |-> <<"U+1CB4">>, title |-> <<"U+1CB4">>],
      [c |-> "U+1CB5", lower |-> <<"U+10F5">>, upper |-> <<"U+1CB5">>, title |-> <<"U+1CB5">>],
      [c |-> "U+1CB6", lower |-> <<"U+10F6">>, upper |-> <<"U+1CB6">>, title |-> <<"U+1CB6">>],
      [c |-> "U+1CB7", lower |-> <<"U+10F7">>, upper |-> <<"U+1CB7">>, title |-> <<"U+1CB7">>],
      [c |-> "U+1CB8", lower |-> <<"U+10F8">>, upper |-> <<"U+1CB8">>, title |-> <<"U+1CB8">>],
      [c |-> "U+1CB9", lower |-> <<"U+10F9">>, upper |-> <<"U+1CB9">>, title |-> <<"U+1CB9">>],
      [c |-> "U+1CBA", lower |-> <<"U+10FA">>, upper |-> <<"U+1CBA">>, title |-> <<"U+1CBA">>],
      [c |-> "U+1CBD", lower |-> <<"U+10FD">>, upper |-> <<"U+1CBD">>, title |-> <<"U+1CBD">>],
      [c |-> "U+1CBE", lower |-> <<"U+10FE">>, upper |-> <<"U+1CBE">>, title |-> <<"U+1CBE">>],
      [c |-> "U+1CBF", lower |-> <<"U+10FF">>, upper |-> <<"U+1CBF">>, title |-> <<"U+1CBF">>],
      [c |-> "U+1D79", lower |-> <<"U+1D79">>, upper |-> <<"U+A77D">>, title |-> <<"U+A77D">>],
      [c |-> "U+1D7D", lower |-> <<"U+1D7D">>, upper |-> <<"U+2C63">>, title |-> <<"U+2C63">>],
      [c |-> "U+1D8E", lower |-> <<"U+1D8E">>, upper |-> <<"U+A7C6">>, title |-> <<"U+A7C6">>],
      [c |-> "U+1E00", lower |-> <<"U+1E01">>, upper |-> <<"U+1E00">>, title |-> <<"U+1E00">>],
      [c |-> "U+1E01", lower |-> <<"U+1E01">>, upper |-> <<"U+1E00">>, title |-> <<"U+1E00">>],
      [c |-> "U+1E02", lower |-> <<"U+1E03">>, upper |-> <<"U+1E02">>, title |-> <<"U+1E02">>],
      [c |-> "U+1E03", lower |-> <<"U+1E03">>, upper |-> <<"U+1E02">>, title |-> <<"U+1E02">>],
      [c |-> "U+1E04", lower |-> <<"U+1E05">>, upper |-> <<"U+1E04">>, title |-> <<"U+1E04">>],
      [c |-> "U+1E05", lower |-> <<"U+1E05">>, upper |-> <<"U+1E04">>, title |-> <<"U+1E04">>],
      [c |-> "U+1E06", lower |-> <<"U+1E07">>, upper |-> <<"U+1E06">>, title |-> <<"U+1E06">>],
      [c |-> "U+1E07", lower |-> <<"U+1E07">>, upper |-> <<"U+1E06">>, title |-> <<"U+1E06">>],
      [c |-> "U+1E08", lower |-> <<"U+1E09">>, upper |-> <<"U+1E08">>, title |-> <<"U+1E08">>],
      [c |-> "U+1E09", lower |-> <<"U+1E09">>, upper |-> <<"U+1E08">>, title |-> <<"U+1E08">>],
      [c |-> "U+1E0A", lower |-> <<"U+1E0B">>, upper |-> <<"U+1E0A">>, title |-> <<"U+1E0A">>],
      [c |-> "U+1E0B", lower |-> <<"U+1E0B">>, upper |-> <<"U+1E0A">>, title |-> <<"U+1E0A">>],
      [c |-> "U+1E0C", lower |-> <<"U+1E0D">>, upper |-> <<"U+1E0C">>, title |-> <<"U+1E0C">>],
      [c |-> "U+1E0D", lower |-> <<"U+1E0D">>, upper |-> <<"U+1E0C">>, title |-> <<"U+1E0C">>],
      [c |-> "U+1E0E", lower |-> <<"U+1E0F">>, upper |-> <<"U+1E0E">>, title |-> <<"U+1E0E">>],
      [c |-> "U+1E0F", lower |-> <<"U+1E0F">>, upper |-> <<"U+1E0E">>, title |-> <<"U+1E0E">>],
      [c |-> "U+1E10", lower |-> <<"U+1E11">>, upper |-> <<"U+1E10">>, title |-> <<"U+1E10">>],
      [c |-> "U+1E11", lower |-> <<"U+1E11">>, upper |-> <<"U+1E10">>, title |-> <<"U+1E10">>],
      [c |-> "U+1E12", lower |-> <<"U+1E13">>, upper |-> <<"U+1E12">>, title |-> <<"U+1E12">>],
      [c |-> "U+1E13", lower |-> <<"U+1E13">>, upper |-> <<"U+1E12">>, title |-> <<"U+1E12">>],
      [c |-> "U+1E14", lower |-> <<"U+1E15">>, upper |-> <<"U+1E14">>, title |-> <<"U+1E14">>],
      [c |-> "U+1E15", lower |-> <<"U+1E15">>, upper |-> <<"U+1E14">>, title |-> <<"U+1E14">>],
      [c |-> "U+1E16", lower |-> <<"U+1E17">>, upper |-> <<"U+1E16">>, title |-> <<"U+1E16">>],
      [c |-> "U+1E17", lower |-> <<"U+1E17">>, upper |-> <<"U+1E16">>, title |-> <<"U+1E16">>],
      [c |-> "U+1E18", lower |-> <<"U+1E19">>, upper |-> <<"U+1E18">>, title |-> <<"U+1E18">>],
      [c |-> "U+1E19", lower |-> <<"U+1E19">>, upper |-> <<"U+1E18">>, title |-> <<"U+1E18">>],
      [c |-> "U+1E1A", lower |-> <<"U+1E1B">>, upper |-> <<"U+1E1A">>, title |-> <<"U+1E1A">>],
      [c |-> "U+1E1B", lower |-> <<"U+1E1B">>, upper |-> <<"U+1E1A">>, title |-> <<"U+1E1A">>],
      [c |-> "U+1E1C", lower |-> <<"U+1E1D">>, upper |-> <<"U+1E1C">>, title |-> <<"U+1E1C">>],
      [c |-> "U+1E1D", lower |-> <<"U+1E1D">>, upper |-> <<"U+1E1C">>, title |-> <<"U+1E1C">>],
      [c |-> "U+1E1E", lower |-> <<"U+1E1F">>, upper |-> <<"U+1E1E">>, title |-> <<"U+1E1E">>],
      [c |-> "U+1E1F", lower |-> <<"U+1E1F">>, upper |-> <<"U+1E1E">>, title |-> <<"U+1E1E">>],
      [c |-> "U+1E20", lower |-> <<"U+1E21">>, upper |-> <<"U+1E20">>, title |-> <<"U+1E20">>],
      [c |-> "U+1E21", lower |-> <<"U+1E21">>, upper |-> <<"U+1E20">>, title |-> <<"U+1E20">>],
      [c |-> "U+1E22", lower |-> <<"U+1E23">>, upper |-> <<"U+1E22">>, title |-> <<"U+1E22">>],
      [c |-> "U+1E23", lower |-> <<"U+1E23">>, upper |-> <<"U+1E22">>, title |-> <<"U+1E22">>],
      [c |-> "U+1E24", lower |-> <<"U+1E25">>, upper |-> <<"U+1E24">>, title |-> <<"U+1E24">>],
      [c |-> "U+1E25", lower |-> <<"U+1E25">>, upper |-> <<"U+1E24">>, title |-> <<"U+1E24">>],
      [c |-> "U+1E26", lower |-> <<"U+1E27">>, upper |-> <<"U+1E26">>, title |-> <<"U+1E26">>],
      [c |-> "U+1E27", lower |-> <<"U+1E27">>, upper |-> <<"U+1E26">>, title |-> <<"U+1E26">>],
      [c |-> "U+1E28", lower |-> <<"U+1E29">>, upper |-> <<"U+1E28">>, title |-> <<"U+1E28">>],
      [c |-> "U+1E29", lower |-> <<"U+1E29">>, upper |-> <<"U+1E28">>, title |-> <<"U+1E28">>],
      [c |-> "U+1E2A", lower |-> <<"U+1E2B">>, upper |-> <<"U+1E2A">>, title |-> <<"U+1E2A">>],
      [c |-> "U+1E2B", lower |-> <<"U+1E2B">>, upper |-> <<"U+1E2A">>, title |-> <<"U+1E2A">>],
      [c |-> "U+1E2C", lower |-> <<"U+1E2D">>, upper |-> <<"U+1E2C">>, title |-> <<"U+1E2C">>],
      [c |-> "U+1E2D", lower |-> <<"U+1E2D">>, upper |-> <<"U+1E2C">>, title |-> <<"U+1E2C">>],
      [c |-> "U+1E2E", lower |-> <<"U+1E2F">>, upper |-> <<"U+1E2E">>, title |-> <<"U+1E2E">>],
      [c |-> "U+1E2F", lower |-> <<"U+1E2F">>, upper |-> <<"U+1E2E">>, title |-> <<"U+1E2E">>],
      [c |-> "U+1E30", lower |-> <<"U+1E31">>, upper |-> <<"U+1E30">>, title |-> <<"U+1E30">>],
      [c |-> "U+1E31", lower |-> <<"U+1E31">>, upper |-> <<"U+1E30">>, title |-> <<"U+1E30">>],
      [c |-> "U+1E32", lower |-> <<"U+1E33">>, upper |-> <<"U+1E32">>, title |-> <<"U+1E32">>],
      [c |-> "U+1E33", lower |-> <<"U+1E33">>, upper |-> <<"U+1E32">>, title |-> <<"U+1E32">>],
      [c |-> "U+1E34", lower |-> <<"U+1E35">>, upper |-> <<"U+1E34">>, title |-> <<"U+1E34">>],
      [c |-> "U+1E35", lower |-> <<"U+1E35">>, upper |-> <<"U+1E34">>, title |-> <<"U+1E34">>],
      [c |-> "U+1E36", lower |-> <<"U+1E37">>, upper |-> <<"U+1E36">>, title |-> <<"U+1E36">>],
      [c |-> "U+1E37", lower |-> <<"U+1E37">>, upper |-> <<"U+1E36">>, title |-> <<"U+1E36">>],
      [c |-> "U+1E38", lower |-> <<"U+1E39">>, upper |-> <<"U+1E38">>, title |-> <<"U+1E38">>],
      [c |-> "U+1E39", lower |-> <<"U+1E39">>, upper |-> <<"U+1E38">>, title |-> <<"U+1E38">>],
      [c |-> "U+1E3A", lower |-> <<"U+1E3B">>, upper |-> <<"U+1E3A">>, title |-> <<"U+1E3A">>],
      [c |-> "U+1E3B", lower |-> <<"U+1E3B">>, upper |-> <<"U+1E3A">>, title |-> <<"U+1E3A">>],
      [c |-> "U+1E3C", lower |-> <<"U+1E3D">>, upper |-> <<"U+1E3C">>, title |-> <<"U+1E3C">>],
      [c |-> "U+1E3D", lower |-> <<"U+1E3D">>, upper |-> <<"U+1E3C">>, title |-> <<"U+1E3C">>],
      [c |-> "U+1E3E", lower |-> <<"U+1E3F">>, upper |-> <<"U+1E3E">>, title |-> <<"U+1E3E">>],
      [c |-> "U+1E3F", lower |-> <<"U+1E3F">>, upper |-> <<"U+1E3E">>, title |-> <<"U+1E3E">>],
      [c |-> "U+1E40", lower |-> <<"U+1E41">>, upper |-> <<"U+1E40">>, title |-> <<"U+1E40">>],
      [c |-> "U+1E41", lower |-> <<"U+1E41">>, upper |-> <<"U+1E40">>, title |-> <<"U+1E40">>],
      [c |-> "U+1E42", lower |-> <<"U+1E43">>, upper |-> <<"U+1E42">>, title |-> <<"U+1E42">>],
      [c |-> "U+1E43", lower |-> <<"U+1E43">>, upper |-> <<"U+1E42">>, title |-> <<"U+1E42">>],
      [c |-> "U+1E44", lower |-> <<"U+1E45">>, upper |-> <<"U+1E44">>, title |-> <<"U+1E44">>],
      [c |-> "U+1E45", lower |-> <<"U+1E45">>, upper |-> <<"U+1E44">>, title |-> <<"U+1E44">>],
      [c |-> "U+1E46", lower |-> <<"U+1E47">>, upper |-> <<"U+1E46">>, title |-> <<"U+1E46">>],
      [c |-> "U+1E47", lower |-> <<"U+1E47">>, upper |-> <<"U+1E46">>, title |-> <<"U+1E46">>],
      [c |-> "U+1E48", lower |-> <<"U+1E49">>, upper |-> <<"U+1E48">>, title |-> <<"U+1E48">>],
      [c |-> "U+1E49", lower |-> <<"U+1E49">>, upper |-> <<"U+1E48">>, title |-> <<"U+1E48">>],
      [c |-> "U+1E4A", lower |-> <<"U+1E4B">>, upper |-> <<"U+1E4A">>, title |-> <<"U+1E4A">>],
      [c |-> "U+1E4B", lower |-> <<"U+1E4B">>, upper |-> <<"U+1E4A">>, title |-> <<"U+1E4A">>],
      [c |-> "U+1E4C", lower |-> <<"U+1E4D">>, upper |-> <<"U+1E4C">>, title |-> <<"U+1E4C">>],
      [c |-> "U+1E4D", lower |-> <<"U+1E4D">>, upper |-> <<"U+1E4C">>, title |-> <<"U+1E4C">>],
      [c |-> "U+1E4E", lower |-> <<"U+1E4F">>, upper |-> <<"U+1E4E">>, title |-> <<"U+1E4E">>],
      [c |-> "U+1E4F", lower |-> <<"U+1E4F">>, upper |-> <<"U+1E4E">>, title |-> <<"U+1E4E">>],
      [c |-> "U+1E50", lower |-> <<"U+1E51">>, upper |-> <<"U+1E50">>, title |-> <<"U+1E50">>],
      [c |-> "U+1E51", lower |-> <<"U+1E51">>, upper |-> <<"U+1E50">>, title |-> <<"U+1E50">>],
      [c |-> "U+1E52", lower |-> <<"U+1E53">>, upper |-> <<"U+1E52">>, title |-> <<"U+1E52">>],
      [c |-> "U+1E53", lower |-> <<"U+1E53">>, upper |-> <<"U+1E52">>, title |-> <<"U+1E52">>],
      [c |-> "U+1E54", lower |-> <<"U+1E55">>, upper |-> <<"U+1E54">>, title |-> <<"U+1E54">>],
      [c |-> "U+1E55", lower |-> <<"U+1E55">>, upper |-> <<"U+1E54">>, title |-> <<"U+1E54">>],
      [c |-> "U+1E56", lower |-> <<"U+1E57">>, upper |-> <<"U+1E56">>, title |-> <<"U+1E56">>],
      [c |-> "U+1E57", lower |-> <<"U+1E57">>, upper |-> <<"U+1E56">>, title |-> <<"U+1E56">>],
      [c |-> "U+1E58", lower |-> <<"U+1E59">>, upper |-> <<"U+1E58">>, title |-> <<"U+1E58">>],
      [c |-> "U+1E59", lower |-> <<"U+1E59">>, upper |-> <<"U+1E58">>, title |-> <<"U+1E58">>],
      [c |-> "U+1E5A", lower |-> <<"U+1E5B">>, upper |-> <<"U+1E5A">>, title |-> <<"U+1E5A">>],
      [c |-> "U+1E5B", lower |-> <<"U+1E5B">>, upper |-> <<"U+1E5A">>, title |-> <<"U+1E5A">>],
      [c |-> "U+1E5C", lower |-> <<"U+1E5D">>, upper |-> <<"U+1E5C">>, title |-> <<"U+1E5C">>],
      [c |-> "U+1E5D", lower |-> <<"U+1E5D">>, upper |-> <<"U+1E5C">>, title |-> <<"U+1E5C">>],
      [c |-> "U+1E5E", lower |-> <<"U+1E5F">>, upper |-> <<"U+1E5E">>, title |-> <<"U+1E5E">>],
      [c |-> "U+1E5F", lower |-> <<"U+1E5F">>, upper |-> <<"U+1E5E">>, title |-> <<"U+1E5E">>],
      [c |-> "U+1E60", lower |-> <<"U+1E61">>, upper |-> <<"U+1E60">>, title |-> <<"U+1E60">>],
      [c |-> "U+1E61", lower |-> <<"U+1E61">>, upper |-> <<"U+1E60">>, title |-> <<"U+1E60">>],
      [c |-> "U+1E62", lower |-> <<"U+1E63">>, upper |-> <<"U+1E62">>, title |-> <<"U+1E62">>],
      [c |-> "U+1E63", lower |-> <<"U+1E63">>, upper |-> <<"U+1E62">>, title |-> <<"U+1E62">>],
      [c |-> "U+1E64", lower |-> <<"U+1E65">>, upper |-> <<"U+1E64">>, title |-> <<"U+1E64">>],
      [c |-> "U+1E65", lower |-> <<"U+1E65">>, upper |-> <<"U+1E64">>, title |-> <<"U+1E64">>],
      [c |-> "U+1E66", lower |-> <<"U+1E67">>, upper |-> <<"U+1E66">>, title |-> <<"U+1E66">>],
      [c |-> "U+1E67", lower |-> <<"U+1E67">>, upper |-> <<"U+1E66">>, title |-> <<"U+1E66">>],
      [c |-> "U+1E68", lower |-> <<"U+1E69">>, upper |-> <<"U+1E68">>, title |-> <<"U+1E68">>],
      [c |-> "U+1E69", lower |-> <<"U+1E69">>, upper |-> <<"U+1E68">>, title |-> <<"U+1E68">>],
      [c |-> "U+1E6A", lower |-> <<"U+1E6B">>, upper |-> <<"U+1E6A">>, title |-> <<"U+1E6A">>],
      [c |-> "U+1E6B", lower |-> <<"U+1E6B">>, upper |-> <<"U+1E6A">>, title |-> <<"U+1E6A">>],
      [c |-> "U+1E6C", lower |-> <<"U+1E6D">>, upper |-> <<"U+1E6C">>, title |-> <<"U+1E6C">>],
      [c |-> "U+1E6D", lower |-> <<"U+1E6D">>, upper |-> <<"U+1E6C">>, title |-> <<"U+1E6C">>],
      [c |-> "U+1E6E", lower |-> <<"U+1E6F">>, upper |-> <<"U+1E6E">>, title |-> <<"U+1E6E">>],
      [c |-> "U+1E6F", lower |-> <<"U+1E6F">>, upper |-> <<"U+1E6E">>, title |-> <<"U+1E6E">>],
      [c |-> "U+1E70", lower |-> <<"U+1E71">>, upper |-> <<"U+1E70">>, title |-> <<"U+1E70">>],
      [c |-> "U+1E71", lower |-> <<"U+1E71">>, upper |-> <<"U+1E70">>, title |-> <<"U+1E70">>],
      [c |-> "U+1E72", lower |-> <<"U+1E73">>, upper |-> <<"U+1E72">>, title |-> <<"U+1E72">>],
      [c |-> "U+1E73", lower |-> <<"U+1E73">>, upper |-> <<"U+1E72">>, title |-> <<"U+1E72">>],
      [c |-> "U+1E74", lower |-> <<"U+1E75">>, upper |-> <<"U+1E74">>, title |-> <<"U+1E74">>],
      [c |-> "U+1E75", lower |-> <<"U+1E75">>, upper |-> <<"U+1E74">>, title |-> <<"U+1E74">>],
      [c |-> "U+1E76", lower |-> <<"U+1E77">>, upper |-> <<"U+1E76">>, title |-> <<"U+1E76">>],
      [c |-> "U+1E77", lower |-> <<"U+1E77">>, upper |-> <<"U+1E76">>, title |-> <<"U+1E76">>],
      [c |-> "U+1E78", lower |-> <<"U+1E79">>, upper |-> <<"U+1E78">>, title |-> <<"U+1E78">>],
      [c |-> "U+1E79", lower |-> <<"U+1E79">>, upper |-> <<"U+1E78">>, title |-> <<"U+1E78">>],
      [c |-> "U+1E7A", lower |-> <<"U+1E7B">>, upper |-> <<"U+1E7A">>, title |-> <<"U+1E7A">>],
      [c |-> "U+1E7B", lower |-> <<"U+1E7B">>, upper |-> <<"U+1E7A">>, title |-> <<"U+1E7A">>],
      [c |-> "U+1E7C", lower |-> <<"U+1E7D">>, upper |-> <<"U+1E7C">>, title |-> <<"U+1E7C">>],
      [c |-> "U+1E7D", lower |-> <<"U+1E7D">>, upper |-> <<"U+1E7C">>, title |-> <<"U+1E7C">>],
      [c |-> "U+1E7E", lower |-> <<"U+1E7F">>, upper |-> <<"U+1E7E">>, title |-> <<"U+1E7E">>],
      [c |-> "U+1E7F", lower |-> <<"U+1E7F">>, upper |-> <<"U+1E7E">>, title |-> <<"U+1E7E">>],
      [c |-> "U+1E80", lower |-> <<"U+1E81">>, upper |-> <<"U+1E80">>, title |-> <<"U+1E80">>],
      [c |-> "U+1E81", lower |-> <<"U+1E81">>, upper |-> <<"U+1E80">>, title |-> <<"U+1E80">>],
      [c |-> "U+1E82", lower |-> <<"U+1E83">>, upper |-> <<"U+1E82">>, title |-> <<"U+1E82">>],
      [c |-> "U+1E83", lower |-> <<"U+1E83">>, upper |-> <<"U+1E82">>, title |-> <<"U+1E82">>],
      [c |-> "U+1E84", lower |-> <<"U+1E85">>, upper |-> <<"U+1E84">>, title |-> <<"U+1E84">>],
      [c |-> "U+1E85", lower |-> <<"U+1E85">>, upper |-> <<"U+1E84">>, title |-> <<"U+1E84">>],
      [c |-> "U+1E86", lower |-> <<"U+1E87">>, upper |-> <<"U+1E86">>, title |-> <<"U+1E86">>],
      [c |-> "U+1E87", lower |-> <<"U+1E87">>, upper |-> <<"U+1E86">>, title |-> <<"U+1E86">>],
      [c |-> "U+1E88", lower |-> <<"U+1E89">>, upper |-> <<"U+1E88">>, title |-> <<"U+1E88">>],
      [c |-> "U+1E89", lower |-> <<"U+1E89">>, upper |-> <<"U+1E88">>, title |-> <<"U+1E88">>],
      [c |-> "U+1E8A", lower |-> <<"U+1E8B">>, upper |-> <<"U+1E8A">>, title |-> <<"U+1E8A">>],
      [c |-> "U+1E8B", lower |-> <<"U+1E8B">>, upper |-> <<"U+1E8A">>, title |-> <<"U+1E8A">>],
      [c |-> "U+1E8C", lower |-> <<"U+1E8D">>, upper |-> <<"U+1E8C">>, title |-> <<"U+1E8C">>],
      [c |-> "U+1E8D", lower |-> <<"U+1E8D">>, upper |-> <<"U+1E8C">>, title |-> <<"U+1E8C">>],
      [c |-> "U+1E8E", lower |-> <<"U+1E8F">>, upper |-> <<"U+1E8E">>, title |-> <<"U+1E8E">>],
      [c |-> "U+1E8F", lower |-> <<"U+1E8F">>, upper |-> <<"U+1E8E">>, title |-> <<"U+1E8E">>],
      [c |-> "U+1E90", lower |-> <<"U+1E91">>, upper |-> <<"U+1E90">>, title |-> <<"U+1E90">>],
      [c |-> "U+1E91", lower |-> <<"U+1E91">>, upper |-> <<"U+1E90">>, title |-> <<"U+1E90">>],
      [c |-> "U+1E92", lower |-> <<"U+1E93">>, upper |-> <<"U+1E92">>, title |-> <<"U+1E92">>],
      [c |-> "U+1E93", lower |-> <<"U+1E93">>, upper |-> <<"U+1E92">>, title |-> <<"U+1E92">>],
      [c |-> "U+1E94", lower |-> <<"U+1E95">>, upper |-> <<"U+1E94">>, title |-> <<"U+1E94">>],
      [c |-> "U+1E95", lower |-> <<"U+1E95">>, upper |-> <<"U+1E94">>, title |-> <<"U+1E94">>],
      [c |-> "U+1E96", lower |-> <<"U+1E96">>, upper |-> <<"H","U+0331">>, title |-> <<"H","U+0331">>],
      [c |-> "U+1E97", lower |-> <<"U+1E97">>, upper |-> <<"T","U+0308">>, title |-> <<"T","U+0308">>],
      [c |-> "U+1E98", lower |-> <<"U+1E98">>, upper |-> <<"W","U+030A">>, title |-> <<"W","U+030A">>],
      [c |-> "U+1E99", lower |-> <<"U+1E99">>, upper |-> <<"Y","U+030A">>, title |-> <<"Y","U+030A">>],
      [c |-> "U+1E9A", lower |-> <<"U+1E9A">>, upper |-> <<"A","U+02BE">>, title |-> <<"A","U+02BE">>],
      [c |-> "U+1E9B", lower |-> <<"U+1E9B">>, upper |-> <<"U+1E60">>, title |-> <<"U+1E60">>],
      [c |-> "U+1E9E", lower |-> <<"U+00DF">>, upper |-> <<"U+1E9E">>, title |-> <<"U+1E9E">>],
      [c |-> "U+1EA0", lower |-> <<"U+1EA1">>, upper |-> <<"U+1EA0">>, title |-> <<"U+1EA0">>],
      [c |-> "U+1EA1", lower |-> <<"U+1EA1">>, upper |-> <<"U+1EA0">>, title |-> <<"U+1EA0">>],
      [c |-> "U+1EA2", lower |-> <<"U+1EA3">>, upper |-> <<"U+1EA2">>, title |-> <<"U+1EA2">>],
      [c |-> "U+1EA3", lower |-> <<"U+1EA3">>, upper |-> <<"U+1EA2">>, title |-> <<"U+1EA2">>],
      [c |-> "U+1EA4", lower |-> <<"U+1EA5">>, upper |-> <<"U+1EA4">>, title |-> <<"U+1EA4">>],
      [c |-> "U+1EA5", lower |-> <<"U+1EA5">>, upper |-> <<"U+1EA4">>, title |-> <<"U+1EA4">>],
      [c |-> "U+1EA6", lower |-> <<"U+1EA7">>, upper |-> <<"U+1EA6">>, title |-> <<"U+1EA6">>],
      [c |-> "U+1EA7", lower |-> <<"U+1EA7">>, upper |-> <<"U+1EA6">>, title |-> <<"U+1EA6">>],
      [c |-> "U+1EA8", lower |-> <<"U+1EA9">>, upper |-> <<"U+1EA8">>, title |-> <<"U+1EA8">>],
      [c |-> "U+1EA9", lower |-> <<"U+1EA9">>, upper |-> <<"U+1EA8">>, title |-> <<"U+1EA8">>],
      [c |-> "U+1EAA", lower |-> <<"U+1EAB">>, upper |-> <<"U+1EAA">>, title |-> <<"U+1EAA">>],
      [c |-> "U+1EAB", lower |-> <<"U+1EAB">>, upper |-> <<"U+1EAA">>, title |-> <<"U+1EAA">>],
      [c |-> "U+1EAC", lower |-> <<"U+1EAD">>, upper |-> <<"U+1EAC">>, title |-> <<"U+1EAC">>],
      [c |-> "U+1EAD", lower |-> <<"U+1EAD">>, upper |-> <<"U+1EAC">>, title |-> <<"U+1EAC">>],
      [c |-> "U+1EAE", lower |-> <<"U+1EAF">>, upper |-> <<"U+1EAE">>, title |-> <<"U+1EAE">>],
      [c |-> "U+1EAF", lower |-> <<"U+1EAF">>, upper |-> <<"U+1EAE">>, title |-> <<"U+1EAE">>],
      [c |-> "U+1EB0", lower |-> <<"U+1EB1">>, upper |-> <<"U+1EB0">>, title |-> <<"U+1EB0">>],
      [c |-> "U+1EB1", lower |-> <<"U+1EB1">>, upper |-> <<"U+1EB0">>, title |-> <<"U+1EB0">>],
      [c |-> "U+1EB2", lower |-> <<"U+1EB3">>, upper |-> <<"U+1EB2">>, title |-> <<"U+1EB2">>],
      [c |-> "U+1EB3", lower |-> <<"U+1EB3">>, upper |-> <<"U+1EB2">>, title |-> <<"U+1EB2">>],
      [c |-> "U+1EB4", lower |-> <<"U+1EB5">>, upper |-> <<"U+1EB4">>, title |-> <<"U+1EB4">>],
      [c |-> "U+1EB5", lower |-> <<"U+1EB5">>, upper |-> <<"U+1EB4">>, title |-> <<"U+1EB4">>],
      [c |-> "U+1EB6", lower |-> <<"U+1EB7">>, upper |-> <<"U+1EB6">>, title |-> <<"U+1EB6">>],
      [c |-> "U+1EB7", lower |-> <<"U+1EB7">>, upper |-> <<"U+1EB6">>, title |-> <<"U+1EB6">>],
      [c |-> "U+1EB8", lower |-> <<"U+1EB9">>, upper |-> <<"U+1EB8">>, title |-> <<"U+1EB8">>],
      [c |-> "U+1EB9", lower |-> <<"U+1EB9">>, upper |-> <<"U+1EB8">>, title |-> <<"U+1EB8">>],
      [c |-> "U+1EBA", lower |-> <<"U+1EBB">>, upper |-> <<"U+1EBA">>, title |-> <<"U+1EBA">>],
      [c |-> "U+1EBB", lower |-> <<"U+1EBB">>, upper |-> <<"U+1EBA">>, title |-> <<"U+1EBA">>],
      [c |-> "U+1EBC", lower |-> <<"U+1EBD">>, upper |-> <<"U+1EBC">>, title |-> <<"U+1EBC">>],
      [c |-> "U+1EBD", lower |-> <<"U+1EBD">>, upper |-> <<"U+1EBC">>, title |-> <<"U+1EBC">>],
      [c |-> "U+1EBE", lower |-> <<"U+1EBF">>, upper |-> <<"U+1EBE">>, title |-> <<"U+1EBE">>],
      [c |-> "U+1EBF", lower |-> <<"U+1EBF">>, upper |-> <<"U+1EBE">>, title |-> <<"U+1EBE">>],
      [c |-> "U+1EC0", lower |-> <<"U+1EC1">>, upper |-> <<"U+1EC0">>, title |-> <<"U+1EC0">>],
      [c |-> "U+1EC1", lower |-> <<"U+1EC1">>, upper |-> <<"U+1EC0">>, title |-> <<"U+1EC0">>],
      [c |-> "U+1EC2", lower |-> <<"U+1EC3">>, upper |-> <<"U+1EC2">>, title |-> <<"U+1EC2">>],
      [c |-> "U+1EC3", lower |-> <<"U+1EC3">>, upper |-> <<"U+1EC2">>, title |-> <<"U+1EC2">>],
      [c |-> "U+1EC4", lower |-> <<"U+1EC5">>, upper |-> <<"U+1EC4">>, title |-> <<"U+1EC4">>],
      [c |-> "U+1EC5", lower |-> <<"U+1EC5">>, upper |-> <<"U+1EC4">>, title |-> <<"U+1EC4">>],
      [c |-> "U+1EC6", lower |-> <<"U+1EC7">>, upper |-> <<"U+1EC6">>, title |-> <<"U+1EC6">>],
      [c |-> "U+1EC7", lower |-> <<"U+1EC7">>, upper |-> <<"U+1EC6">>, title |-> <<"U+1EC6">>],
      [c |-> "U+1EC8", lower |-> <<"U+1EC9">>, upper |-> <<"U+1EC8">>, title |-> <<"U+1EC8">>],
      [c |-> "U+1EC9", lower |-> <<"U+1EC9">>, upper |-> <<"U+1EC8">>, title |-> <<"U+1EC8">>],
      [c |-> "U+1ECA", lower |-> <<"U+1ECB">>, upper |-> <<"U+1ECA">>, title |-> <<"U+1ECA">>],
      [c |-> "U+1ECB", lower |-> <<"U+1ECB">>, upper |-> <<"U+1ECA">>, title |-> <<"U+1ECA">>],
      [c |-> "U+1ECC", lower |-> <<"U+1ECD">>, upper |-> <<"U+1ECC">>, title |-> <<"U+1ECC">>],
      [c |-> "U+1ECD", lower |-> <<"U+1ECD">>, upper |-> <<"U+1ECC">>, title |-> <<"U+1ECC">>],
      [c |-> "U+1ECE", lower |-> <<"U+1ECF">>, upper |-> <<"U+1ECE">>, title |-> <<"U+1ECE">>],
      [c |-> "U+1ECF", lower |-> <<"U+1ECF">>, upper |-> <<"U+1ECE">>, title |-> <<"U+1ECE">>],
      [c |-> "U+1ED0", lower |-> <<"U+1ED1">>, upper |-> <<"U+1ED0">>, title |-> <<"U+1ED0">>],
      [c |-> "U+1ED1", lower |-> <<"U+1ED1">>, upper |-> <<"U+1ED0">>, title |-> <<"U+1ED0">>],
      [c |-> "U+1ED2", lower |-> <<"U+1ED3">>, upper |-> <<"U+1ED2">>, title |-> <<"U+1ED2">>],
      [c |-> "U+1ED3", lower |-> <<"U+1ED3">>, upper |-> <<"U+1ED2">>, title |-> <<"U+1ED2">>],
      [c |-> "U+1ED4", lower |-> <<"U+1ED5">>, upper |-> <<"U+1ED4">>, title |-> <<"U+1ED4">>],
      [c |-> "U+1ED5", lower |-> <<"U+1ED5">>, upper |-> <<"U+1ED4">>, title |-> <<"U+1ED4">>],
      [c |-> "U+1ED6", lower |-> <<"U+1ED7">>, upper |-> <<"U+1ED6">>, title |-> <<"U+1ED6">>],
      [c |-> "U+1ED7", lower |-> <<"U+1ED7">>, upper |-> <<"U+1ED6">>, title |-> <<"U+1ED6">>],
      [c |-> "U+1ED8", lower |-> <<"U+1ED9">>, upper |-> <<"U+1ED8">>, title |-> <<"U+1ED8">>],
      [c |-> "U+1ED9", lower |-> <<"U+1ED9">>, upper |-> <<"U+1ED8">>, title |-> <<"U+1ED8">>],
      [c |-> "U+1EDA", lower |-> <<"U+1EDB">>, upper |-> <<"U+1EDA">>, title |-> <<"U+1EDA">>],
      [c |-> "U+1EDB", lower |-> <<"U+1EDB">>, upper |-> <<"U+1EDA">>, title |-> <<"U+1EDA">>],
      [c |-> "U+1EDC", lower |-> <<"U+1EDD">>, upper |-> <<"U+1EDC">>, title |-> <<"U+1EDC">>],
      [c |-> "U+1EDD", lower |-> <<"U+1EDD">>, upper |-> <<"U+1EDC">>, title |-> <<"U+1EDC">>],
      [c |-> "U+1EDE", lower |-> <<"U+1EDF">>, upper |-> <<"U+1EDE">>, title |-> <<"U+1EDE">>],
      [c |-> "U+1EDF", lower |-> <<"U+1EDF">>, upper |-> <<"U+1EDE">>, title |-> <<"U+1EDE">>],
      [c |-> "U+1EE0", lower |-> <<"U+1EE1">>, upper |-> <<"U+1EE0">>, title |-> <<"U+1EE0">>],
      [c |-> "U+1EE1", lower |-> <<"U+1EE1">>, upper |-> <<"U+1EE0">>, title |-> <<"U+1EE0">>],
      [c |-> "U+1EE2", lower |-> <<"U+1EE3">>, upper |-> <<"U+1EE2">>, title |-> <<"U+1EE2">>],
      [c |-> "U+1EE3", lower |-> <<"U+1EE3">>, upper |-> <<"U+1EE2">>, title |-> <<"U+1EE2">>],
      [c |-> "U+1EE4", lower |-> <<"U+1EE5">>, upper |-> <<"U+1EE4">>, title |-> <<"U+1EE4">>],
      [c |-> "U+1EE5", lower |-> <<"U+1EE5">>, upper |-> <<"U+1EE4">>, title |-> <<"U+1EE4">>],
      [c |-> "U+1EE6", lower |-> <<"U+1EE7">>, upper |-> <<"U+1EE6">>, title |-> <<"U+1EE6">>],
      [c |-> "U+1EE7", lower |-> <<"U+1EE7">>, upper |-> <<"U+1EE6">>, title |-> <<"U+1EE6">>],
      [c |-> "U+1EE8", lower |-> <<"U+1EE9">>, upper |-> <<"U+1EE8">>, title |-> <<"U+1EE8">>],
      [c |-> "U+1EE9", lower |-> <<"U+1EE9">>, upper |-> <<"U+1EE8">>, title |-> <<"U+1EE8">>],
      [c |-> "U+1EEA", lower |-> <<"U+1EEB">>, upper |-> <<"U+1EEA">>, title |-> <<"U+1EEA">>],
      [c |-> "U+1EEB", lower |-> <<"U+1EEB">>, upper |-> <<"U+1EEA">>, title |-> <<"U+1EEA">>],
      [c |-> "U+1EEC", lower |-> <<"U+1EED">>, upper |-> <<"U+1EEC">>, title |-> <<"U+1EEC">>],
      [c |-> "U+1EED", lower |-> <<"U+1EED">>, upper |-> <<"U+1EEC">>, title |-> <<"U+1EEC">>],
      [c |-> "U+1EEE", lower |-> <<"U+1EEF">>, upper |-> <<"U+1EEE">>, title |-> <<"U+1EEE">>],
      [c |-> "U+1EEF", lower |-> <<"U+1EEF">>, upper |-> <<"U+1EEE">>, title |-> <<"U+1EEE">>],
      [c |-> "U+1EF0", lower |-> <<"U+1EF1">>, upper |-> <<"U+1EF0">>, title |-> <<"U+1EF0">>],
      [c |-> "U+1EF1", lower |-> <<"U+1EF1">>, upper |-> <<"U+1EF0">>, title |-> <<"U+1EF0">>],
      [c |-> "U+1EF2", lower |-> <<"U+1EF3">>, upper |-> <<"U+1EF2">>, title |-> <<"U+1EF2">>],
      [c |-> "U+1EF3", lower |-> <<"U+1EF3">>, upper |-> <<"U+1EF2">>, title |-> <<"U+1EF2">>],
      [c |-> "U+1EF4", lower |-> <<"U+1EF5">>, upper |-> <<"U+1EF4">>, title |-> <<"U+1EF4">>],
      [c |-> "U+1EF5", lower |-> <<"U+1EF5">>, upper |-> <<"U+1EF4">>, title |-> <<"U+1EF4">>],
      [c |-> "U+1EF6", lower |-> <<"U+1EF7">>, upper |-> <<"U+1EF6">>, title |-> <<"U+1EF6">>],
      [c |-> "U+1EF7", lower |-> <<"U+1EF7">>, upper |-> <<"U+1EF6">>, title |-> <<"U+1EF6">>],
      [c |-> "U+1EF8", lower |-> <<"U+1EF9">>, upper |-> <<"U+1EF8">>, title |-> <<"U+1EF8">>],
      [c |-> "U+1EF9", lower |-> <<"U+1EF9">>, upper |-> <<"U+1EF8">>, title |-> <<"U+1EF8">>],
      [c |-> "U+1EFA", lower |-> <<"U+1EFB">>, upper |-> <<"U+1EFA">>, title |-> <<"U+1EFA">>],
      [c |-> "U+1EFB", lower |-> <<"U+1EFB">>, upper |-> <<"U+1EFA">>, title |-> <<"U+1EFA">>],
      [c |-> "U+1EFC", lower |-> <<"U+1EFD">>, upper |-> <<"U+1EFC">>, title |-> <<"U+1EFC">>],
      [c |-> "U+1EFD", lower |-> <<"U+1EFD">>, upper |-> <<"U+1EFC">>, title |-> <<"U+1EFC">>],
      [c |-> "U+1EFE", lower |-> <<"U+1EFF">>, upper |-> <<"U+1EFE">>, title |-> <<"U+1EFE">>],
      [c |-> "U+1EFF", lower |-> <<"U+1EFF">>, upper |-> <<"U+1EFE">>, title |-> <<"U+1EFE">>],
      [c |-> "U+1F00", lower |-> <<"U+1F00">>, upper |-> <<"U+1F08">>, title |-> <<"U+1F08">>],
      [c |-> "U+1F01", lower |-> <<"U+1F01">>, upper |-> <<"U+1F09">>, title |-> <<"U+1F09">>],
      [c |-> "U+1F02", lower |-> <<"U+1F02">>, upper |-> <<"U+1F0A">>, title |-> <<"U+1F0A">>],
      [c |-> "U+1F03", lower |-> <<"U+1F03">>, upper |-> <<"U+1F0B">>, title |-> <<"U+1F0B">>],
      [c |-> "U+1F04", lower |-> <<"U+1F04">>, upper |-> <<"U+1F0C">>, title |-> <<"U+1F0C">>],
      [c |-> "U+1F05", lower |-> <<"U+1F05">>, upper |-> <<"U+1F0D">>, title |-> <<"U+1F0D">>],
      [c |-> "U+1F06", lower |-> <<"U+1F06">>, upper |-> <<"U+1F0E">>, title |-> <<"U+1F0E">>],
      [c |-> "U+1F07", lower |-> <<"U+1F07">>, upper |-> <<"U+1F0F">>, title |-> <<"U+1F0F">>],
      [c |-> "U+1F08", lower |-> <<"U+1F00">>, upper |-> <<"U+1F08">>, title |-> <<"U+1F08">>],
      [c |-> "U+1F09", lower |-> <<"U+1F01">>, upper |-> <<"U+1F09">>, title |-> <<"U+1F09">>],
      [c |-> "U+1F0A", lower |-> <<"U+1F02">>, upper |-> <<"U+1F0A">>, title |-> <<"U+1F0A">>],
      [c |-> "U+1F0B", lower |-> <<"U+1F03">>, upper |-> <<"U+1F0B">>, title |-> <<"U+1F0B">>],
      [c |-> "U+1F0C", lower |-> <<"U+1F04">>, upper |-> <<"U+1F0C">>, title |-> <<"U+1F0C">>],
      [c |-> "U+1F0D", lower |-> <<"U+1F05">>, upper |-> <<"U+1F0D">>, title |-> <<"U+1F0D">>],
      [c |-> "U+1F0E", lower |-> <<"U+1F06">>, upper |-> <<"U+1F0E">>, title |-> <<"U+1F0E">>],
      [c |-> "U+1F0F", lower |-> <<"U+1F07">>, upper |-> <<"U+1F0F">>, title |-> <<"U+1F0F">>],
      [c |-> "U+1F10", lower |-> <<"U+1F10">>, upper |-> <<"U+1F18">>, title |-> <<"U+1F18">>],
      [c |-> "U+1F11", lower |-> <<"U+1F11">>, upper |-> <<"U+1F19">>, title |-> <<"U+1F19">>],
      [c |-> "U+1F12", lower |-> <<"U+1F12">>, upper |-> <<"U+1F1A">>, title |-> <<"U+1F1A">>],
      [c |-> "U+1F13", lower |-> <<"U+1F13">>, upper |-> <<"U+1F1B">>, title |-> <<"U+1F1B">>],
      [c |-> "U+1F14", lower |-> <<"U+1F14">>, upper |-> <<"U+1F1C">>, title |-> <<"U+1F1C">>],
      [c |-> "U+1F15", lower |-> <<"U+1F15">>, upper |-> <<"U+1F1D">>, title |-> <<"U+1F1D">>],
      [c |-> "U+1F18", lower |-> <<"U+1F10">>, upper |-> <<"U+1F18">>, title |-> <<"U+1F18">>],
      [c |-> "U+1F19", lower |-> <<"U+1F11">>, upper |-> <<"U+1F19">>, title |-> <<"U+1F19">>],
      [c |-> "U+1F1A", lower |-> <<"U+1F12">>, upper |-> <<"U+1F1A">>, title |-> <<"U+1F1A">>],
      [c |-> "U+1F1B", lower |-> <<"U+1F13">>, upper |-> <<"U+1F1B">>, title |-> <<"U+1F1B">>],
      [c |-> "U+1F1C", lower |-> <<"U+1F14">>, upper |-> <<"U+1F1C">>, title |-> <<"U+1F1C">>],
      [c |-> "U+1F1D", lower |-> <<"U+1F15">>, upper |-> <<"U+1F1D">>, title |-> <<"U+1F1D">>],
      [c |-> "U+1F20", lower |-> <<"U+1F20">>, upper |-> <<"U+1F28">>, title |-> <<"U+1F28">>],
      [c |-> "U+1F21", lower |-> <<"U+1F21">>, upper |-> <<"U+1F29">>, title |-> <<"U+1F29">>],
      [c |-> "U+1F22", lower |-> <<"U+1F22">>, upper |-> <<"U+1F2A">>, title |-> <<"U+1F2A">>],
      [c |-> "U+1F23", lower |-> <<"U+1F23">>, upper |-> <<"U+1F2B">>, title |-> <<"U+1F2B">>],
      [c |-> "U+1F24", lower |-> <<"U+1F24">>, upper |-> <<"U+1F2C">>, title |-> <<"U+1F2C">>],
      [c |-> "U+1F25", lower |-> <<"U+1F25">>, upper |-> <<"U+1F2D">>, title |-> <<"U+1F2D">>],
      [c |-> "U+1F26", lower |-> <<"U+1F26">>, upper |-> <<"U+1F2E">>, title |-> <<"U+1F2E">>],
      [c |-> "U+1F27", lower |-> <<"U+1F27">>, upper |-> <<"U+1F2F">>, title |-> <<"U+1F2F">>],
      [c |-> "U+1F28", lower |-> <<"U+1F20">>, upper |-> <<"U+1F28">>, title |-> <<"U+1F28">>],
      [c |-> "U+1F29", lower |-> <<"U+1F21">>, upper |-> <<"U+1F29">>, title |-> <<"U+1F29">>],
      [c |-> "U+1F2A", lower |-> <<"U+1F22">>, upper |-> <<"U+1F2A">>, title |-> <<"U+1F2A">>],
      [c |-> "U+1F2B", lower |-> <<"U+1F23">>, upper |-> <<"U+1F2B">>, title |-> <<"U+1F2B">>],
      [c |-> "U+1F2C", lower |-> <<"U+1F24">>, upper |-> <<"U+1F2C">>, title |-> <<"U+1F2C">>],
      [c |-> "U+1F2D", lower |-> <<"U+1F25">>, upper |-> <<"U+1F2D">>, title |-> <<"U+1F2D">>],
      [c |-> "U+1F2E", lower |-> <<"U+1F26">>, upper |-> <<"U+1F2E">>, title |-> <<"U+1F2E">>],
      [c |-> "U+1F2F", lower |-> <<"U+1F27">>, upper |-> <<"U+1F2F">>, title |-> <<"U+1F2F">>],
      [c |-> "U+1F30", lower |-> <<"U+1F30">>, upper |-> <<"U+1F38">>, title |-> <<"U+1F38">>],
      [c |-> "U+1F31", lower |-> <<"U+1F31">>, upper |-> <<"U+1F39">>, title |-> <<"U+1F39">>],
      [c |-> "U+1F32", lower |-> <<"U+1F32">>, upper |-> <<"U+1F3A">>, title |-> <<"U+1F3A">>],
      [c |-> "U+1F33", lower |-> <<"U+1F33">>, upper |-> <<"U+1F3B">>, title |-> <<"U+1F3B">>],
      [c |-> "U+1F34", lower |-> <<"U+1F34">>, upper |-> <<"U+1F3C">>, title |-> <<"U+1F3C">>],
      [c |-> "U+1F35", lower |-> <<"U+1F35">>, upper |-> <<"U+1F3D">>, title |-> <<"U+1F3D">>],
      [c |-> "U+1F36", lower |-> <<"U+1F36">>, upper |-> <<"U+1F3E">>, title |-> <<"U+1F3E">>],
      [c |-> "U+1F37", lower |-> <<"U+1F37">>, upper |-> <<"U+1F3F">>, title |-> <<"U+1F3F">>],
      [c |-> "U+1F38", lower |-> <<"U+1F30">>, upper |-> <<"U+1F38">>, title |-> <<"U+1F38">>],
      [c |-> "U+1F39", lower |-> <<"U+1F31">>, upper |-> <<"U+1F39">>, title |-> <<"U+1F39">>],
      [c |-> "U+1F3A", lower |-> <<"U+1F32">>, upper |-> <<"U+1F3A">>, title |-> <<"U+1F3A">>],
      [c |-> "U+1F3B", lower |-> <<"U+1F33">>, upper |-> <<"U+1F3B">>, title |-> <<"U+1F3B">>],
      [c |-> "U+1F3C", lower |-> <<"U+1F34">>, upper |-> <<"U+1F3C">>, title |-> <<"U+1F3C">>],
      [c |-> "U+1F3D", lower |-> <<"U+1F35">>, upper |-> <<"U+1F3D">>, title |-> <<"U+1F3D">>],
      [c |-> "U+1F3E", lower |-> <<"U+1F36">>, upper |-> <<"U+1F3E">>, title |-> <<"U+1F3E">>],
      [c |-> "U+1F3F", lower |-> <<"U+1F37">>, upper |-> <<"U+1F3F">>, title |-> <<"U+1F3F">>],
      [c |-> "U+1F40", lower |-> <<"U+1F40">>, upper |-> <<"U+1F48">>, title |-> <<"U+1F48">>],
      [c |-> "U+1F41", lower |-> <<"U+1F41">>, upper |-> <<"U+1F49">>, title |-> <<"U+1F49">>],
      [c |-> "U+1F42", lower |-> <<"U+1F42">>, upper |-> <<"U+1F4A">>, title |-> <<"U+1F4A">>],
      [c |-> "U+1F43", lower |-> <<"U+1F43">>, upper |-> <<"U+1F4B">>, title |-> <<"U+1F4B">>],
      [c |-> "U+1F44", lower |-> <<"U+1F44">>, upper |-> <<"U+1F4C">>, title |-> <<"U+1F4C">>],
      [c |-> "U+1F45", lower |-> <<"U+1F45">>, upper |-> <<"U+1F4D">>, title |-> <<"U+1F4D">>],
      [c |-> "U+1F48", lower |-> <<"U+1F40">>, upper |-> <<"U+1F48">>, title |-> <<"U+1F48">>],
      [c |-> "U+1F49", lower |-> <<"U+1F41">>, upper |-> <<"U+1F49">>, title |-> <<"U+1F49">>],
      [c |-> "U+1F4A", lower |-> <<"U+1F42">>, upper |-> <<"U+1F4A">>, title |-> <<"U+1F4A">>],
      [c |-> "U+1F4B", lower |-> <<"U+1F43">>, upper |-> <<"U+1F4B">>, title |-> <<"U+1F4B">>],
      [c |-> "U+1F4C", lower |-> <<"U+1F44">>, upper |-> <<"U+1F4C">>, title |-> <<"U+1F4C">>],
      [c |-> "U+1F4D", lower |-> <<"U+1F45">>, upper |-> <<"U+1F4D">>, title |-> <<"U+1F4D">>],
      [c |-> "U+1F50", lower |-> <<"U+1F50">>, upper |-> <<"U+03A5","U+0313">>, title |-> <<"U+03A5","U+0313">>],
      [c |-> "U+1F51", lower |-> <<"U+1F51">>, upper |-> <<"U+1F59">>, title |-> <<"U+1F59">>],
      [c |-> "U+1F52", lower |-> <<"U+1F52">>, upper |-> <<"U+03A5","U+0313","U+0300">>, title |-> <<"U+03A5","U+0313","U+0300">>],
      [c |-> "U+1F53", lower |-> <<"U+1F53">>, upper |-> <<"U+1F5B">>, title |-> <<"U+1F5B">>],
      [c |-> "U+1F54", lower |-> <<"U+1F54">>, upper |-> <<"U+03A5","U+0313","U+0301">>, title |-> <<"U+03A5","U+0313","U+0301">>],
      [c |-> "U+1F55", lower |-> <<"U+1F55">>, upper |-> <<"U+1F5D">>, title |-> <<"U+1F5D">>],
      [c |-> "U+1F56", lower |-> <<"U+1F56">>, upper |-> <<"U+03A5","U+0313","U+0342">>, title |-> <<"U+03A5","U+0313","U+0342">>],
      [c |-> "U+1F57", lower |-> <<"U+1F57">>, upper |-> <<"U+1F5F">>, title |-> <<"U+1F5F">>],
      [c |-> "U+1F59", lower |-> <<"U+1F51">>, upper |-> <<"U+1F59">>, title |-> <<"U+1F59">>],
      [c |-> "U+1F5B", lower |-> <<"U+1F53">>, upper |-> <<"U+1F5B">>, title |-> <<"U+1F5B">>],
      [c |-> "U+1F5D", lower |-> <<"U+1F55">>, upper |-> <<"U+1F5D">>, title |-> <<"U+1F5D">>],
      [c |-> "U+1F5F", lower |-> <<"U+1F57">>, upper |-> <<"U+1F5F">>, title |-> <<"U+1F5F">>],
      [c |-> "U+1F60", lower |-> <<"U+1F60">>, upper |-> <<"U+1F68">>, title |-> <<"U+1F68">>],
      [c |-> "U+1F61", lower |-> <<"U+1F61">>, upper |-> <<"U+1F69">>, title |-> <<"U+1F69">>],
      [c |-> "U+1F62", lower |-> <<"U+1F62">>, upper |-> <<"U+1F6A">>, title |-> <<"U+1F6A">>],
      [c |-> "U+1F63", lower |-> <<"U+1F63">>, upper |-> <<"U+1F6B">>, title |-> <<"U+1F6B">>],
      [c |-> "U+1F64", lower |-> <<"U+1F64">>, upper |-> <<"U+1F6C">>, title |-> <<"U+1F6C">>],
      [c |-> "U+1F65", lower |-> <<"U+1F65">>, upper |-> <<"U+1F6D">>, title |-> <<"U+1F6D">>],
      [c |-> "U+1F66", lower |-> <<"U+1F66">>, upper |-> <<"U+1F6E">>, title |-> <<"U+1F6E">>],
      [c |-> "U+1F67", lower |-> <<"U+1F67">>, upper |-> <<"U+1F6F">>, title |-> <<"U+1F6F">>],
      [c |-> "U+1F68", lower |-> <<"U+1F60">>, upper |-> <<"U+1F68">>, title |-> <<"U+1F68">>],
      [c |-> "U+1F69", lower |-> <<"U+1F61">>, upper |-> <<"U+1F69">>, title |-> <<"U+1F69">>],
      [c |-> "U+1F6A", lower |-> <<"U+1F62">>, upper |-> <<"U+1F6A">>, title |-> <<"U+1F6A">>],
      [c |-> "U+1F6B", lower |-> <<"U+1F63">>, upper |-> <<"U+1F6B">>, title |-> <<"U+1F6B">>],
      [c |-> "U+1F6C", lower |-> <<"U+1F64">>, upper |-> <<"U+1F6C">>, title |-> <<"U+1F6C">>],
      [c |-> "U+1F6D", lower |-> <<"U+1F65">>, upper |-> <<"U+1F6D">>, title |-> <<"U+1F6D">>],
      [c |-> "U+1F6E", lower |-> <<"U+1F66">>, upper |-> <<"U+1F6E">>, title |-> <<"U+1F6E">>],
      [c |-> "U+1F6F", lower |-> <<"U+1F67">>, upper |-> <<"U+1F6F">>, title |-> <<"U+1F6F">>],
      [c |-> "U+1F70", lower |-> <<"U+1F70">>, upper |-> <<"U+1FBA">>, title |-> <<"U+1FBA">>],
      [c |-> "U+1F71", lower |-> <<"U+1F71">>, upper |-> <<"U+1FBB">>, title |-> <<"U+1FBB">>],
      [c |-> "U+1F72", lower |-> <<"U+1F72">>, upper |-> <<"U+1FC8">>, title |-> <<"U+1FC8">>],
      [c |-> "U+1F73", lower |-> <<"U+1F73">>, upper |-> <<"U+1FC9">>, title |-> <<"U+1FC9">>],
      [c |-> "U+1F74", lower |-> <<"U+1F74">>, upper |-> <<"U+1FCA">>, title |-> <<"U+1FCA">>],
      [c |-> "U+1F75", lower |-> <<"U+1F75">>, upper |-> <<"U+1FCB">>, title |-> <<"U+1FCB">>],
      [c |-> "U+1F76", lower |-> <<"U+1F76">>, upper |-> <<"U+1FDA">>, title |-> <<"U+1FDA">>],
      [c |-> "U+1F77", lower |-> <<"U+1F77">>, upper |-> <<"U+1FDB">>, title |-> <<"U+1FDB">>],
      [c |-> "U+1F78", lower |-> <<"U+1F78">>, upper |-> <<"U+1FF8">>, title |-> <<"U+1FF8">>],
      [c |-> "U+1F79", lower |-> <<"U+1F79">>, upper |-> <<"U+1FF9">>, title |-> <<"U+1FF9">>],
      [c |-> "U+1F7A", lower |-> <<"U+1F7A">>, upper |-> <<"U+1FEA">>, title |-> <<"U+1FEA">>],
      [c |-> "U+1F7B", lower |-> <<"U+1F7B">>, upper |-> <<"U+1FEB">>, title |-> <<"U+1FEB">>],
      [c |-> "U+1F7C", lower |-> <<"U+1F7C">>, upper |-> <<"U+1FFA">>, title |-> <<"U+1FFA">>],
      [c |-> "U+1F7D", lower |-> <<"U+1F7D">>, upper |-> <<"U+1FFB">>, title |-> <<"U+1FFB">>],
      [c |-> "U+1F80", lower |-> <<"U+1F80">>, upper |-> <<"U+1F08","U+0399">>, title |-> <<"U+1F88">>],
      [c |-> "U+1F81", lower |-> <<"U+1F81">>, upper |-> <<"U+1F09","U+0399">>, title |-> <<"U+1F89">>],
      [c |-> "U+1F82", lower |-> <<"U+1F82">>, upper |-> <<"U+1F0A","U+0399">>, title |-> <<"U+1F8A">>],
      [c |-> "U+1F83", lower |-> <<"U+1F83">>, upper |-> <<"U+1F0B","U+0399">>, title |-> <<"U+1F8B">>],
      [c |-> "U+1F84", lower |-> <<"U+1F84">>, upper |-> <<"U+1F0C","U+0399">>, title |-> <<"U+1F8C">>],
      [c |-> "U+1F85", lower |-> <<"U+1F85">>, upper |-> <<"U+1F0D","U+0399">>, title |-> <<"U+1F8D">>],
      [c |-> "U+1F86", lower |-> <<"U+1F86">>, upper |-> <<"U+1F0E","U+0399">>, title |-> <<"U+1F8E">>],
      [c |-> "U+1F87", lower |-> <<"U+1F87">>, upper |-> <<"U+1F0F","U+0399">>, title |-> <<"U+1F8F">>],
      [c |-> "U+1F88", lower |-> <<"U+1F80">>, upper |-> <<"U+1F08","U+0399">>, title |-> <<"U+1F88">>],
      [c |-> "U+1F89", lower |-> <<"U+1F81">>, upper |-> <<"U+1F09","U+0399">>, title |-> <<"U+1F89">>],
      [c |-> "U+1F8A", lower |-> <<"U+1F82">>, upper |-> <<"U+1F0A","U+0399">>, title |-> <<"U+1F8A">>],
      [c |-> "U+1F8B", lower |-> <<"U+1F83">>, upper |-> <<"U+1F0B","U+0399">>, title |-> <<"U+1F8B">>],
      [c |-> "U+1F8C", lower |-> <<"U+1F84">>, upper |-> <<"U+1F0C","U+0399">>, title |-> <<"U+1F8C">>],
      [c |-> "U+1F8D", lower |-> <<"U+1F85">>, upper |-> <<"U+1F0D","U+0399">>, title |-> <<"U+1F8D">>],
      [c |-> "U+1F8E", lower |-> <<"U+1F86">>, upper |-> <<"U+1F0E","U+0399">>, title |-> <<"U+1F8E">>],
      [c |-> "U+1F8F", lower |-> <<"U+1F87">>, upper |-> <<"U+1F0F","U+0399">>, title |-> <<"U+1F8F">>],
      [c |-> "U+1F90", lower |-> <<"U+1F90">>, upper |-> <<"U+1F28","U+0399">>, title |-> <<"U+1F98">>],
      [c |-> "U+1F91", lower |-> <<"U+1F91">>, upper |-> <<"U+1F29","U+0399">>, title |-> <<"U+1F99">>],
      [c |-> "U+1F92", lower |-> <<"U+1F92">>, upper |-> <<"U+1F2A","U+0399">>, title |-> <<"U+1F9A">>],
      [c |-> "U+1F93", lower |-> <<"U+1F93">>, upper |-> <<"U+1F2B","U+0399">>, title |-> <<"U+1F9B">>],
      [c |-> "U+1F94", lower |-> <<"U+1F94">>, upper |-> <<"U+1F2C","U+0399">>, title |-> <<"U+1F9C">>],
      [c |-> "U+1F95", lower |-> <<"U+1F95">>, upper |-> <<"U+1F2D","U+0399">>, title |-> <<"U+1F9D">>],
      [c |-> "U+1F96", lower |-> <<"U+1F96">>, upper |-> <<"U+1F2E","U+0399">>, title |-> <<"U+1F9E">>],
      [c |-> "U+1F97", lower |-> <<"U+1F97">>, upper |-> <<"U+1F2F","U+0399">>, title |-> <<"U+1F9F">>],
      [c |-> "U+1F98", lower |-> <<"U+1F90">>, upper |-> <<"U+1F28","U+0399">>, title |-> <<"U+1F98">>],
      [c |-> "U+1F99", lower |-> <<"U+1F91">>, upper |-> <<"U+1F29","U+0399">>, title |-> <<"U+1F99">>],
      [c |-> "U+1F9A", lower |-> <<"U+1F92">>, upper |-> <<"U+1F2A","U+0399">>, title |-> <<"U+1F9A">>],
      [c |-> "U+1F9B", lower |-> <<"U+1F93">>, upper |-> <<"U+1F2B","U+0399">>, title |-> <<"U+1F9B">>],
      [c |-> "U+1F9C", lower |-> <<"U+1F94">>, upper |-> <<"U+1F2C","U+0399">>, title |-> <<"U+1F9C">>],
      [c |-> "U+1F9D", lower |-> <<"U+1F95">>, upper |-> <<"U+1F2D","U+0399">>, title |-> <<"U+1F9D">>],
      [c |-> "U+1F9E", lower |-> <<"U+1F96">>, upper |-> <<"U+1F2E","U+0399">>, title |-> <<"U+1F9E">>],
      [c |-> "U+1F9F", lower |-> <<"U+1F97">>, upper |-> <<"U+1F2F","U+0399">>, title |-> <<"U+1F9F">>],
      [c |-> "U+1FA0", lower |-> <<"U+1FA0">>, upper |-> <<"U+1F68","U+0399">>, title |-> <<"U+1FA8">>],
      [c |-> "U+1FA1", lower |-> <<"U+1FA1">>, upper |-> <<"U+1F69","U+0399">>, title |-> <<"U+1FA9">>],
      [c |-> "U+1FA2", lower |-> <<"U+1FA2">>, upper |-> <<"U+1F6A","U+0399">>, title |-> <<"U+1FAA">>],
      [c |-> "U+1FA3", lower |-> <<"U+1FA3">>, upper |-> <<"U+1F6B","U+0399">>, title |-> <<"U+1FAB">>],
      [c |-> "U+1FA4", lower |-> <<"U+1FA4">>, upper |-> <<"U+1F6C","U+0399">>, title |-> <<"U+1FAC">>],
      [c |-> "U+1FA5", lower |-> <<"U+1FA5">>, upper |-> <<"U+1F6D","U+0399">>, title |-> <<"U+1FAD">>],
      [c |-> "U+1FA6", lower |-> <<"U+1FA6">>, upper |-> <<"U+1F6E","U+0399">>, title |-> <<"U+1FAE">>],
      [c |-> "U+1FA7", lower |-> <<"U+1FA7">>, upper |-> <<"U+1F6F","U+0399">>, title |-> <<"U+1FAF">>],
      [c |-> "U+1FA8", lower |-> <<"U+1FA0">>, upper |-> <<"U+1F68","U+0399">>, title |-> <<"U+1FA8">>],
      [c |-> "U+1FA9", lower |-> <<"U+1FA1">>, upper |-> <<"U+1F69","U+0399">>, title |-> <<"U+1FA9">>],
      [c |-> "U+1FAA", lower |-> <<"U+1FA2">>, upper |-> <<"U+1F6A","U+0399">>, title |-> <<"U+1FAA">>],
      [c |-> "U+1FAB", lower |-> <<"U+1FA3">>, upper |-> <<"U+1F6B","U+0399">>, title |-> <<"U+1FAB">>],
      [c |-> "U+1FAC", lower |-> <<"U+1FA4">>, upper |-> <<"U+1F6C","U+0399">>, title |-> <<"U+1FAC">>],
      [c |-> "U+1FAD", lower |-> <<"U+1FA5">>, upper |-> <<"U+1F6D","U+0399">>, title |-> <<"U+1FAD">>],
      [c |-> "U+1FAE", lower |-> <<"U+1FA6">>, upper |-> <<"U+1F6E","U+0399">>, title |-> <<"U+1FAE">>],
      [c |-> "U+1FAF", lower |-> <<"U+1FA7">>, upper |-> <<"U+1F6F","U+0399">>, title |-> <<"U+1FAF">>],
      [c |-> "U+1FB0", lower |-> <<"U+1FB0">>, upper |-> <<"U+1FB8">>, title |-> <<"U+1FB8">>],
      [c |-> "U+1FB1", lower |-> <<"U+1FB1">>, upper |-> <<"U+1FB9">>, title |-> <<"U+1FB9">>],
      [c |-> "U+1FB2", lower |-> <<"U+1FB2">>, upper |-> <<"U+1FBA","U+0399">>, title |-> <<"U+1FBA","U+0345">>],
      [c |-> "U+1FB3", lower |-> <<"U+1FB3">>, upper |-> <<"U+0391","U+0399">>, title |-> <<"U+1FBC">>],
      [c |-> "U+1FB4", lower |-> <<"U+1FB4">>, upper |-> <<"U+0386","U+0399">>, title |-> <<"U+0386","U+0345">>],
      [c |-> "U+1FB6", lower |-> <<"U+1FB6">>, upper |-> <<"U+0391","U+0342">>, title |-> <<"U+0391","U+0342">>],
      [c |-> "U+1FB7", lower |-> <<"U+1FB7">>, upper |-> <<"U+0391","U+0342","U+0399">>, title |-> <<"U+0391","U+0342","U+0345">>],
      [c |-> "U+1FB8", lower |-> <<"U+1FB0">>, upper |-> <<"U+1FB8">>, title |-> <<"U+1FB8">>],
      [c |-> "U+1FB9", lower |-> <<"U+1FB1">>, upper |-> <<"U+1FB9">>, title |-> <<"U+1FB9">>],
      [c |-> "U+1FBA", lower |-> <<"U+1F70">>, upper |-> <<"U+1FBA">>, title |-> <<"U+1FBA">>],
      [c |-> "U+1FBB", lower |-> <<"U+1F71">>, upper |-> <<"U+1FBB">>, title |-> <<"U+1FBB">>],
      [c |-> "U+1FBC", lower |-> <<"U+1FB3">>, upper |-> <<"U+0391","U+0399">>, title |-> <<"U+1FBC">>],
      [c |-> "U+1FBE", lower |-> <<"U+1FBE">>, upper |-> <<"U+0399">>, title |-> <<"U+0399">>],
      [c |-> "U+1FC2", lower |-> <<"U+1FC2">>, upper |-> <<"U+1FCA","U+0399">>, title |-> <<"U+1FCA","U+0345">>],
      [c |-> "U+1FC3", lower |-> <<"U+1FC3">>, upper |-> <<"U+0397","U+0399">>, title |-> <<"U+1FCC">>],
      [c |-> "U+1FC4", lower |-> <<"U+1FC4">>, upper |-> <<"U+0389","U+0399">>, title |-> <<"U+0389","U+0345">>],
      [c |-> "U+1FC6", lower |-> <<"U+1FC6">>, upper |-> <<"U+0397","U+0342">>, title |-> <<"U+0397","U+0342">>],
      [c |-> "U+1FC7", lower |-> <<"U+1FC7">>, upper |-> <<"U+0397","U+0342","U+0399">>, title |-> <<"U+0397","U+0342","U+0345">>],
      [c |-> "U+1FC8", lower |-> <<"U+1F72">>, upper |-> <<"U+1FC8">>, title |-> <<"U+1FC8">>],
      [c |-> "U+1FC9", lower |-> <<"U+1F73">>, upper |-> <<"U+1FC9">>, title |-> <<"U+1FC9">>],
      [c |-> "U+1FCA", lower |-> <<"U+1F74">>, upper |-> <<"U+1FCA">>, title |-> <<"U+1FCA">>],
      [c |-> "U+1FCB", lower |-> <<"U+1F75">>, upper |-> <<"U+1FCB">>, title |-> <<"U+1FCB">>],
      [c |-> "U+1FCC", lower |-> <<"U+1FC3">>, upper |-> <<"U+0397","U+0399">>, title |-> <<"U+1FCC">>],
      [c |-> "U+1FD0", lower |-> <<"U+1FD0">>, upper |-> <<"U+1FD8">>, title |-> <<"U+1FD8">>],
      [c |-> "U+1FD1", lower |-> <<"U+1FD1">>, upper |-> <<"U+1FD9">>, title |-> <<"U+1FD9">>],
      [c |-> "U+1FD2", lower |-> <<"U+1FD2">>, upper |-> <<"U+0399","U+0308","U+0300">>, title |-> <<"U+0399","U+0308","U+0300">>],
      [c |-> "U+1FD3", lower |-> <<"U+1FD3">>, upper |-> <<"U+0399","U+0308","U+0301">>, title |-> <<"U+0399","U+0308","U+0301">>],
      [c |-> "U+1FD6", lower |-> <<"U+1FD6">>, upper |-> <<"U+0399","U+0342">>, title |-> <<"U+0399","U+0342">>],
      [c |-> "U+1FD7", lower |-> <<"U+1FD7">>, upper |-> <<"U+0399","U+0308","U+0342">>, title |-> <<"U+0399","U+0308","U+0342">>],
      [c |-> "U+1FD8", lower |-> <<"U+1FD0">>, upper |-> <<"U+1FD8">>, title |-> <<"U+1FD8">>],
      [c |-> "U+1FD9", lower |-> <<"U+1FD1">>, upper |-> <<"U+1FD9">>, title |-> <<"U+1FD9">>],
      [c |-> "U+1FDA", lower |-> <<"U+1F76">>, upper |-> <<"U+1FDA">>, title |-> <<"U+1FDA">>],
      [c |-> "U+1FDB", lower |-> <<"U+1F77">>, upper |-> <<"U+1FDB">>, title |-> <<"U+1FDB">>],
      [c |-> "U+1FE0", lower |-> <<"U+1FE0">>, upper |-> <<"U+1FE8">>, title |-> <<"U+1FE8">>],
      [c |-> "U+1FE1", lower |-> <<"U+1FE1">>, upper |-> <<"U+1FE9">>, title |-> <<"U+1FE9">>],
      [c |-> "U+1FE2", lower |-> <<"U+1FE2">>, upper |-> <<"U+03A5","U+0308","U+0300">>, title |-> <<"U+03A5","U+0308","U+0300">>],
      [c |-> "U+1FE3", lower |-> <<"U+1FE3">>, upper |-> <<"U+03A5","U+0308","U+0301">>, title |-> <<"U+03A5","U+0308","U+0301">>],
      [c |-> "U+1FE4", lower |-> <<"U+1FE4">>, upper |-> <<"U+03A1","U+0313">>, title |-> <<"U+03A1","U+0313">>],
      [c |-> "U+1FE5", lower |-> <<"U+1FE5">>, upper |-> <<"U+1FEC">>, title |-> <<"U+1FEC">>],
      [c |-> "U+1FE6", lower |-> <<"U+1FE6">>, upper |-> <<"U+03A5","U+0342">>, title |-> <<"U+03A5","U+0342">>],
      [c |-> "U+1FE7", lower |-> <<"U+1FE7">>, upper |-> <<"U+03A5","U+0308","U+0342">>, title |-> <<"U+03A5","U+0308","U+0342">>],
      [c |-> "U+1FE8", lower |-> <<"U+1FE0">>, upper |-> <<"U+1FE8">>, title |-> <<"U+1FE8">>],
      [c |-> "U+1FE9", lower |-> <<"U+1FE1">>, upper |-> <<"U+1FE9">>, title |-> <<"U+1FE9">>],
      [c |-> "U+1FEA", lower |-> <<"U+1F7A">>, upper |-> <<"U+1FEA">>, title |-> <<"U+1FEA">>],
      [c |-> "U+1FEB", lower |-> <<"U+1F7B">>, upper |-> <<"U+1FEB">>, title |-> <<"U+1FEB">>],
      [c |-> "U+1FEC", lower |-> <<"U+1FE5">>, upper |-> <<"U+1FEC">>, title |-> <<"U+1FEC">>],
      [c |-> "U+1FF2", lower |-> <<"U+1FF2">>, upper |-> <<"U+1FFA","U+0399">>, title |-> <<"U+1FFA","U+0345">>],
      [c |-> "U+1FF3", lower |-> <<"U+1FF3">>, upper |-> <<"U+03A9","U+0399">>, title |-> <<"U+1FFC">>],
      [c |-> "U+1FF4", lower |-> <<"U+1FF4">>, upper |-> <<"U+038F","U+0399">>, title |-> <<"U+038F","U+0345">>],
      [c |-> "U+1FF6", lower |-> <<"U+1FF6">>, upper |-> <<"U+03A9","U+0342">>, title |-> <<"U+03A9","U+0342">>],
      [c |-> "U+1FF7", lower |-> <<"U+1FF7">>, upper |-> <<"U+03A9","U+0342","U+0399">>, title |-> <<"U+03A9","U+0342","U+0345">>],
      [c |-> "U+1FF8", lower |-> <<"U+1F78">>, upper |-> <<"U+1FF8">>, title |-> <<"U+1FF8">>],
      [c |-> "U+1FF9", lower |-> <<"U+1F79">>, upper |-> <<"U+1FF9">>, title |-> <<"U+1FF9">>],
      [c |-> "U+1FFA", lower |-> <<"U+1F7C">>, upper |-> <<"U+1FFA">>, title |-> <<"U+1FFA">>],
      [c |-> "U+1FFB", lower |-> <<"U+1F7D">>, upper |-> <<"U+1FFB">>, title |-> <<"U+1FFB">>],
      [c |-> "U+1FFC", lower |-> <<"U+1FF3">>, upper |-> <<"U+03A9","U+0399">>, title |-> <<"U+1FFC">>],
      [c |-> "U+2126", lower |-> <<"U+03C9">>, upper |-> <<"U+2126">>, title |-> <<"U+2126">>],
      [c |-> "U+212A", lower |-> <<"k">>, upper |-> <<"U+212A">>, title |-> <<"U+212A">>],
      [c |-> "U+212B", lower |-> <<"U+00E5">>, upper |-> <<"U+212B">>, title |-> <<"U+212B">>],
      [c |-> "U+2132", lower |-> <<"U+214E">>, upper |-> <<"U+2132">>, title |-> <<"U+2132">>],
      [c |-> "U+214E", lower |-> <<"U+214E">>, upper |-> <<"U+2132">>, title |-> <<"U+2132">>],
      [c |-> "U+2160", lower |-> <<"U+2170">>, upper |-> <<"U+2160">>, title |-> <<"U+2160">>],
      [c |-> "U+2161", lower |-> <<"U+2171">>, upper |-> <<"U+2161">>, title |-> <<"U+2161">>],
      [c |-> "U+2162", lower |-> <<"U+2172">>, upper |-> <<"U+2162">>, title |-> <<"U+2162">>],
      [c |-> "U+2163", lower |-> <<"U+2173">>, upper |-> <<"U+2163">>, title |-> <<"U+2163">>],
      [c |-> "U+2164", lower |-> <<"U+2174">>, upper |-> <<"U+2164">>, title |-> <<"U+2164">>],
      [c |-> "U+2165", lower |-> <<"U+2175">>, upper |-> <<"U+2165">>, title |-> <<"U+2165">>],
      [c |-> "U+2166", lower |-> <<"U+2176">>, upper |-> <<"U+2166">>, title |-> <<"U+2166">>],
      [c |-> "U+2167", lower |-> <<"U+2177">>, upper |-> <<"U+2167">>, title |-> <<"U+2167">>],
      [c |-> "U+2168", lower |-> <<"U+2178">>, upper |-> <<"U+2168">>, title |-> <<"U+2168">>],
      [c |-> "U+2169", lower |-> <<"U+2179">>, upper |-> <<"U+2169">>, title |-> <<"U+2169">>],
      [c |-> "U+216A", lower |-> <<"U+217A">>, upper |-> <<"U+216A">>, title |-> <<"U+216A">>],
      [c |-> "U+216B", lower |-> <<"U+217B">>, upper |-> <<"U+216B">>, title |-> <<"U+216B">>],
      [c |-> "U+216C", lower |-> <<"U+217C">>, upper |-> <<"U+216C">>, title |-> <<"U+216C">>],
      [c |-> "U+216D", lower |-> <<"U+217D">>, upper |-> <<"U+216D">>, title |-> <<"U+216D">>],
      [c |-> "U+216E", lower |-> <<"U+217E">>, upper |-> <<"U+216E">>, title |-> <<"U+216E">>],
      [c |-> "U+216F", lower |-> <<"U+217F">>, upper |-> <<"U+216F">>, title |-> <<"U+216F">>],
      [c |-> "U+2170", lower |-> <<"U+2170">>, upper |-> <<"U+2160">>, title |-> <<"U+2160">>],
      [c |-> "U+2171", lower |-> <<"U+2171">>, upper |-> <<"U+2161">>, title |-> <<"U+2161">>],
      [c |-> "U+2172", lower |-> <<"U+2172">>, upper |-> <<"U+2162">>, title |-> <<"U+2162">>],
      [c |-> "U+2173", lower |-> <<"U+2173">>, upper |-> <<"U+2163">>, title |-> <<"U+2163">>],
      [c |-> "U+2174", lower |-> <<"U+2174">>, upper |-> <<"U+2164">>, title |-> <<"U+2164">>],
      [c |-> "U+2175", lower |-> <<"U+2175">>, upper |-> <<"U+2165">>, title |-> <<"U+2165">>],
      [c |-> "U+2176", lower |-> <<"U+2176">>, upper |-> <<"U+2166">>, title |-> <<"U+2166">>],
      [c |-> "U+2177", lower |-> <<"U+2177">>, upper |-> <<"U+2167">>, title |-> <<"U+2167">>],
      [c |-> "U+2178", lower |-> <<"U+2178">>, upper |-> <<"U+2168">>, title |-> <<"U+2168">>],
      [c |-> "U+2179", lower |-> <<"U+2179">>, upper |-> <<"U+2169">>, title |-> <<"U+2169">>],
      [c |-> "U+217A", lower |-> <<"U+217A">>, upper |-> <<"U+216A">>, title |-> <<"U+216A">>],
      [c |-> "U+217B", lower |-> <<"U+217B">>, upper |-> <<"U+216B">>, title |-> <<"U+216B">>],
      [c |-> "U+217C", lower |-> <<"U+217C">>, upper |-> <<"U+216C">>, title |-> <<"U+216C">>],
      [c |-> "U+217D", lower |-> <<"U+217D">>, upper |-> <<"U+216D">>, title |-> <<"U+216D">>],
      [c |-> "U+217E", lower |-> <<"U+217E">>, upper |-> <<"U+216E">>, title |-> <<"U+216E">>],
      [c |-> "U+217F", lower |-> <<"U+217F">>, upper |-> <<"U+216F">>, title |-> <<"U+216F">>],
      [c |-> "U+2183", lower |-> <<"U+2184">>, upper |-> <<"U+2183">>, title |-> <<"U+2183">>],
      [c |-> "U+2184", lower |-> <<"U+2184">>, upper |-> <<"U+2183">>, title |-> <<"U+2183">>],
      [c |-> "U+24B6", lower |-> <<"U+24D0">>, upper |-> <<"U+24B6">>, title |-> <<"U+24B6">>],
      [c |-> "U+24B7", lower |-> <<"U+24D1">>, upper |-> <<"U+24B7">>, title |-> <<"U+24B7">>],
      [c |-> "U+24B8", lower |-> <<"U+24D2">>, upper |-> <<"U+24B8">>, title |-> <<"U+24B8">>],
      [c |-> "U+24B9", lower |-> <<"U+24D3">>, upper |-> <<"U+24B9">>, title |-> <<"U+24B9">>],
      [c |-> "U+24BA", lower |-> <<"U+24D4">>, upper |-> <<"U+24BA">>, title |-> <<"U+24BA">>],
      [c |-> "U+24BB", lower |-> <<"U+24D5">>, upper |-> <<"U+24BB">>, title |-> <<"U+24BB">>],
      [c |-> "U+24BC", lower |-> <<"U+24D6">>, upper |-> <<"U+24BC">>, title |-> <<"U+24BC">>],
      [c |-> "U+24BD", lower |-> <<"U+24D7">>, upper |-> <<"U+24BD">>, title |-> <<"U+24BD">>],
      [c |-> "U+24BE", lower |-> <<"U+24D8">>, upper |-> <<"U+24BE">>, title |-> <<"U+24BE">>],
      [c |-> "U+24BF", lower |-> <<"U+24D9">>, upper |-> <<"U+24BF">>, title |-> <<"U+24BF">>],
      [c |-> "U+24C0", lower |-> <<"U+24DA">>, upper |-> <<"U+24C0">>, title |-> <<"U+24C0">>],
      [c |-> "U+24C1", lower |-> <<"U+24DB">>, upper |-> <<"U+24C1">>, title |-> <<"U+24C1">>],
      [c |-> "U+24C2", lower |-> <<"U+24DC">>, upper |-> <<"U+24C2">>, title |-> <<"U+24C2">>],
      [c |-> "U+24C3", lower |-> <<"U+24DD">>, upper |-> <<"U+24C3">>, title |-> <<"U+24C3">>],
      [c |-> "U+24C4", lower |-> <<"U+24DE">>, upper |-> <<"U+24C4">>, title |-> <<"U+24C4">>],
      [c |-> "U+24C5", lower |-> <<"U+24DF">>, upper |-> <<"U+24C5">>, title |-> <<"U+24C5">>],
      [c |-> "U+24C6", lower |-> <<"U+24E0">>, upper |-> <<"U+24C6">>, title |-> <<"U+24C6">>],
      [c |-> "U+24C7", lower |-> <<"U+24E1">>, upper |-> <<"U+24C7">>, title |-> <<"U+24C7">>],
      [c |-> "U+24C8", lower |-> <<"U+24E2">>, upper |-> <<"U+24C8">>, title |-> <<"U+24C8">>],
      [c |-> "U+24C9", lower |-> <<"U+24E3">>, upper |-> <<"U+24C9">>, title |-> <<"U+24C9">>],
      [c |-> "U+24CA", lower |-> <<"U+24E4">>, upper |-> <<"U+24CA">>, title |-> <<"U+24CA">>],
      [c |-> "U+24CB", lower |-> <<"U+24E5">>, upper |-> <<"U+24CB">>, title |-> <<"U+24CB">>],
      [c |-> "U+24CC", lower |-> <<"U+24E6">>, upper |-> <<"U+24CC">>, title |-> <<"U+24CC">>],
      [c |-> "U+24CD", lower |-> <<"U+24E7">>, upper |-> <<"U+24CD">>, title |-> <<"U+24CD">>],
      [c |-> "U+24CE", lower |-> <<"U+24E8">>, upper |-> <<"U+24CE">>, title |-> <<"U+24CE">>],
      [c |-> "U+24CF", lower |-> <<"U+24E9">>, upper |-> <<"U+24CF">>, title |-> <<"U+24CF">>],
      [c |-> "U+24D0", lower |-> <<"U+24D0">>, upper |-> <<"U+24B6">>, title |-> <<"U+24B6">>],
      [c |-> "U+24D1", lower |-> <<"U+24D1">>, upper |-> <<"U+24B7">>, title |-> <<"U+24B7">>],
      [c |-> "U+24D2", lower |-> <<"U+24D2">>, upper |-> <<"U+24B8">>, title |-> <<"U+24B8">>],
      [c |-> "U+24D3", lower |-> <<"U+24D3">>, upper |-> <<"U+24B9">>, title |-> <<"U+24B9">>],
      [c |-> "U+24D4", lower |-> <<"U+24D4">>, upper |-> <<"U+24BA">>, title |-> <<"U+24BA">>],
      [c |-> "U+24D5", lower |-> <<"U+24D5">>, upper |-> <<"U+24BB">>, title |-> <<"U+24BB">>],
      [c |-> "U+24D6", lower |-> <<"U+24D6">>, upper |-> <<"U+24BC">>, title |-> <<"U+24BC">>],
      [c |-> "U+24D7", lower |-> <<"U+24D7">>, upper |-> <<"U+24BD">>, title |-> <<"U+24BD">>],
      [c |-> "U+24D8", lower |-> <<"U+24D8">>, upper |-> <<"U+24BE">>, title |-> <<"U+24BE">>],
      [c |-> "U+24D9", lower |-> <<"U+24D9">>, upper |-> <<"U+24BF">>, title |-> <<"U+24BF">>],
      [c |-> "U+24DA", lower |-> <<"U+24DA">>, upper |-> <<"U+24C0">>, title |-> <<"U+24C0">>],
      [c |-> "U+24DB", lower |-> <<"U+24DB">>, upper |-> <<"U+24C1">>, title |-> <<"U+24C1">>],
      [c |-> "U+24DC", lower |-> <<"U+24DC">>, upper |-> <<"U+24C2">>, title |-> <<"U+24C2">>],
      [c |-> "U+24DD", lower |-> <<"U+24DD">>, upper |-> <<"U+24C3">>, title |-> <<"U+24C3">>],
      [c |-> "U+24DE", lower |-> <<"U+24DE">>, upper |-> <<"U+24C4">>, title |-> <<"U+24C4">>],
      [c |-> "U+24DF", lower |-> <<"U+24DF">>, upper |-> <<"U+24C5">>, title |-> <<"U+24C5">>],
      [c |-> "U+24E0", lower |-> <<"U+24E0">>, upper |-> <<"U+24C6">>, title |-> <<"U+24C6">>],
      [c |-> "U+24E1", lower |-> <<"U+24E1">>, upper |-> <<"U+24C7">>, title |-> <<"U+24C7">>],
      [c |-> "U+24E2", lower |-> <<"U+24E2">>, upper |-> <<"U+24C8">>, title |-> <<"U+24C8">>],
      [c |-> "U+24E3", lower |-> <<"U+24E3">>, upper |-> <<"U+24C9">>, title |-> <<"U+24C9">>],
      [c |-> "U+24E4", lower |-> <<"U+24E4">>, upper |-> <<"U+24CA">>, title |-> <<"U+24CA">>],
      [c |-> "U+24E5", lower |-> <<"U+24E5">>, upper |-> <<"U+24CB">>, title |-> <<"U+24CB">>],
      [c |-> "U+24E6", lower |-> <<"U+24E6">>, upper |-> <<"U+24CC">>, title |-> <<"U+24CC">>],
      [c |-> "U+24E7", lower |-> <<"U+24E7">>, upper |-> <<"U+24CD">>, title |-> <<"U+24CD">>],
      [c |-> "U+24E8", lower |-> <<"U+24E8">>, upper |-> <<"U+24CE">>, title |-> <<"U+24CE">>],
      [c |-> "U+24E9", lower |-> <<"U+24E9">>, upper |-> <<"U+24CF">>, title |-> <<"U+24CF">>],
      [c |-> "U+2C00", lower |-> <<"U+2C30">>, upper |-> <<"U+2C00">>, title |-> <<"U+2C00">>],
      [c |-> "U+2C01", lower |-> <<"U+2C31">>, upper |-> <<"U+2C01">>, title |-> <<"U+2C01">>],
      [c |-> "U+2C02", lower |-> <<"U+2C32">>, upper |-> <<"U+2C02">>, title |-> <<"U+2C02">>],
      [c |-> "U+2C03", lower |-> <<"U+2C33">>, upper |-> <<"U+2C03">>, title |-> <<"U+2C03">>],
      [c |-> "U+2C04", lower |-> <<"U+2C34">>, upper |-> <<"U+2C04">>, title |-> <<"U+2C04">>],
      [c |-> "U+2C05", lower |-> <<"U+2C35">>, upper |-> <<"U+2C05">>, title |-> <<"U+2C05">>],
      [c |-> "U+2C06", lower |-> <<"U+2C36">>, upper |-> <<"U+2C06">>, title |-> <<"U+2C06">>],
      [c |-> "U+2C07", lower |-> <<"U+2C37">>, upper |-> <<"U+2C07">>, title |-> <<"U+2C07">>],
      [c |-> "U+2C08", lower |-> <<"U+2C38">>, upper |-> <<"U+2C08">>, title |-> <<"U+2C08">>],
      [c |-> "U+2C09", lower |-> <<"U+2C39">>, upper |-> <<"U+2C09">>, title |-> <<"U+2C09">>],
      [c |-> "U+2C0A", lower |-> <<"U+2C3A">>, upper |-> <<"U+2C0A">>, title |-> <<"U+2C0A">>],
      [c |-> "U+2C0B", lower |-> <<"U+2C3B">>, upper |-> <<"U+2C0B">>, title |-> <<"U+2C0B">>],
      [c |-> "U+2C0C", lower |-> <<"U+2C3C">>, upper |-> <<"U+2C0C">>, title |-> <<"U+2C0C">>],
      [c |-> "U+2C0D", lower |-> <<"U+2C3D">>, upper |-> <<"U+2C0D">>, title |-> <<"U+2C0D">>],
      [c |-> "U+2C0E", lower |-> <<"U+2C3E">>, upper |-> <<"U+2C0E">>, title |-> <<"U+2C0E">>],
      [c |-> "U+2C0F", lower |-> <<"U+2C3F">>, upper |-> <<"U+2C0F">>, title |-> <<"U+2C0F">>],
      [c |-> "U+2C10", lower |-> <<"U+2C40">>, upper |-> <<"U+2C10">>, title |-> <<"U+2C10">>],
      [c |-> "U+2C11", lower |-> <<"U+2C41">>, upper |-> <<"U+2C11">>, title |-> <<"U+2C11">>],
      [c |-> "U+2C12", lower |-> <<"U+2C42">>, upper |-> <<"U+2C12">>, title |-> <<"U+2C12">>],
      [c |-> "U+2C13", lower |-> <<"U+2C43">>, upper |-> <<"U+2C13">>, title |-> <<"U+2C13">>],
      [c |-> "U+2C14", lower |-> <<"U+2C44">>, upper |-> <<"U+2C14">>, title |-> <<"U+2C14">>],
      [c |-> "U+2C15", lower |-> <<"U+2C45">>, upper |-> <<"U+2C15">>, title |-> <<"U+2C15">>],
      [c |-> "U+2C16", lower |-> <<"U+2C46">>, upper |-> <<"U+2C16">>, title |-> <<"U+2C16">>],
      [c |-> "U+2C17", lower |-> <<"U+2C47">>, upper |-> <<"U+2C17">>, title |-> <<"U+2C17">>],
      [c |-> "U+2C18", lower |-> <<"U+2C48">>, upper |-> <<"U+2C18">>, title |-> <<"U+2C18">>],
      [c |-> "U+2C19", lower |-> <<"U+2C49">>, upper |-> <<"U+2C19">>, title |-> <<"U+2C19">>],
      [c |-> "U+2C1A", lower |-> <<"U+2C4A">>, upper |-> <<"U+2C1A">>, title |-> <<"U+2C1A">>],
      [c |-> "U+2C1B", lower |-> <<"U+2C4B">>, upper |-> <<"U+2C1B">>, title |-> <<"U+2C1B">>],
      [c |-> "U+2C1C", lower |-> <<"U+2C4C">>, upper |-> <<"U+2C1C">>, title |-> <<"U+2C1C">>],
      [c |-> "U+2C1D", lower |-> <<"U+2C4D">>, upper |-> <<"U+2C1D">>, title |-> <<"U+2C1D">>],
      [c |-> "U+2C1E", lower |-> <<"U+2C4E">>, upper |-> <<"U+2C1E">>, title |-> <<"U+2C1E">>],
      [c |-> "U+2C1F", lower |-> <<"U+2C4F">>, upper |-> <<"U+2C1F">>, title |-> <<"U+2C1F">>],
      [c |-> "U+2C20", lower |-> <<"U+2C50">>, upper |-> <<"U+2C20">>, title |-> <<"U+2C20">>],
      [c |-> "U+2C21", lower |-> <<"U+2C51">>, upper |-> <<"U+2C21">>, title |-> <<"U+2C21">>],
      [c |-> "U+2C22", lower |-> <<"U+2C52">>, upper |-> <<"U+2C22">>, title |-> <<"U+2C22">>],
      [c |-> "U+2C23", lower |-> <<"U+2C53">>, upper |-> <<"U+2C23">>, title |-> <<"U+2C23">>],
      [c |-> "U+2C24", lower |-> <<"U+2C54">>, upper |-> <<"U+2C24">>, title |-> <<"U+2C24">>],
      [c |-> "U+2C25", lower |-> <<"U+2C55">>, upper |-> <<"U+2C25">>, title |-> <<"U+2C25">>],
      [c |-> "U+2C26", lower |-> <<"U+2C56">>, upper |-> <<"U+2C26">>, title |-> <<"U+2C26">>],
      [c |-> "U+2C27", lower |-> <<"U+2C57">>, upper |-> <<"U+2C27">>, title |-> <<"U+2C27">>],
      [c |-> "U+2C28", lower |-> <<"U+2C58">>, upper |-> <<"U+2C28">>, title |-> <<"U+2C28">>],
      [c |-> "U+2C29", lower |-> <<"U+2C59">>, upper |-> <<"U+2C29">>, title |-> <<"U+2C29">>],
      [c |-> "U+2C2A", lower |-> <<"U+2C5A">>, upper |-> <<"U+2C2A">>, title |-> <<"U+2C2A">>],
      [c |-> "U+2C2B", lower |-> <<"U+2C5B">>, upper |-> <<"U+2C2B">>, title |-> <<"U+2C2B">>],
      [c |-> "U+2C2C", lower |-> <<"U+2C5C">>, upper |-> <<"U+2C2C">>, title |-> <<"U+2C2C">>],
      [c |-> "U+2C2D", lower |-> <<"U+2C5D">>, upper |-> <<"U+2C2D">>, title |-> <<"U+2C2D">>],
      [c |-> "U+2C2E", lower |-> <<"U+2C5E">>, upper |-> <<"U+2C2E">>, title |-> <<"U+2C2E">>],
      [c |-> "U+2C2F", lower |-> <<"U+2C5F">>, upper |-> <<"U+2C2F">>, title |-> <<"U+2C2F">>],
      [c |-> "U+2C30", lower |-> <<"U+2C30">>, upper |-> <<"U+2C00">>, title |-> <<"U+2C00">>],
      [c |-> "U+2C31", lower |-> <<"U+2C31">>, upper |-> <<"U+2C01">>, title |-> <<"U+2C01">>],
      [c |-> "U+2C32", lower |-> <<"U+2C32">>, upper |-> <<"U+2C02">>, title |-> <<"U+2C02">>],
      [c |-> "U+2C33", lower |-> <<"U+2C33">>, upper |-> <<"U+2C03">>, title |-> <<"U+2C03">>],
      [c |-> "U+2C34", lower |-> <<"U+2C34">>, upper |-> <<"U+2C04">>, title |-> <<"U+2C04">>],
      [c |-> "U+2C35", lower |-> <<"U+2C35">>, upper |-> <<"U+2C05">>, title |-> <<"U+2C05">>],
      [c |-> "U+2C36", lower |-> <<"U+2C36">>, upper |-> <<"U+2C06">>, title |-> <<"U+2C06">>],
      [c |-> "U+2C37", lower |-> <<"U+2C37">>, upper |-> <<"U+2C07">>, title |-> <<"U+2C07">>],
      [c |-> "U+2C38", lower |-> <<"U+2C38">>, upper |-> <<"U+2C08">>, title |-> <<"U+2C08">>],
      [c |-> "U+2C39", lower |-> <<"U+2C39">>, upper |-> <<"U+2C09">>, title |-> <<"U+2C09">>],
      [c |-> "U+2C3A", lower |-> <<"U+2C3A">>, upper |-> <<"U+2C0A">>, title |-> <<"U+2C0A">>],
      [c |-> "U+2C3B", lower |-> <<"U+2C3B">>, upper |-> <<"U+2C0B">>, title |-> <<"U+2C0B">>],
      [c |-> "U+2C3C", lower |-> <<"U+2C3C">>, upper |-> <<"U+2C0C">>, title |-> <<"U+2C0C">>],
      [c |-> "U+2C3D", lower |-> <<"U+2C3D">>, upper |-> <<"U+2C0D">>, title |-> <<"U+2C0D">>],
      [c |-> "U+2C3E", lower |-> <<"U+2C3E">>, upper |-> <<"U+2C0E">>, title |-> <<"U+2C0E">>],
      [c |-> "U+2C3F", lower |-> <<"U+2C3F">>, upper |-> <<"U+2C0F">>, title |-> <<"U+2C0F">>],
      [c |-> "U+2C40", lower |-> <<"U+2C40">>, upper |-> <<"U+2C10">>, title |-> <<"U+2C10">>],
      [c |-> "U+2C41", lower |-> <<"U+2C41">>, upper |-> <<"U+2C11">>, title |-> <<"U+2C11">>],
      [c |-> "U+2C42", lower |-> <<"U+2C42">>, upper |-> <<"U+2C12">>, title |-> <<"U+2C12">>],
      [c |-> "U+2C43", lower |-> <<"U+2C43">>, upper |-> <<"U+2C13">>, title |-> <<"U+2C13">>],
      [c |-> "U+2C44", lower |-> <<"U+2C44">>, upper |-> <<"U+2C14">>, title |-> <<"U+2C14">>],
      [c |-> "U+2C45", lower |-> <<"U+2C45">>, upper |-> <<"U+2C15">>, title |-> <<"U+2C15">>],
      [c |-> "U+2C46", lower |-> <<"U+2C46">>, upper |-> <<"U+2C16">>, title |-> <<"U+2C16">>],
      [c |-> "U+2C47", lower |-> <<"U+2C47">>, upper |-> <<"U+2C17">>, title |-> <<"U+2C17">>],
      [c |-> "U+2C48", lower |-> <<"U+2C48">>, upper |-> <<"U+2C18">>, title |-> <<"U+2C18">>],
      [c |-> "U+2C49", lower |-> <<"U+2C49">>, upper |-> <<"U+2C19">>, title |-> <<"U+2C19">>],
      [c |-> "U+2C4A", lower |-> <<"U+2C4A">>, upper |-> <<"U+2C1A">>, title |-> <<"U+2C1A">>],
      [c |-> "U+2C4B", lower |-> <<"U+2C4B">>, upper |-> <<"U+2C1B">>, title |-> <<"U+2C1B">>],
      [c |-> "U+2C4C", lower |-> <<"U+2C4C">>, upper |-> <<"U+2C1C">>, title |-> <<"U+2C1C">>],
      [c |-> "U+2C4D", lower |-> <<"U+2C4D">>, upper |-> <<"U+2C1D">>, title |-> <<"U+2C1D">>],
      [c |-> "U+2C4E", lower |-> <<"U+2C4E">>, upper |-> <<"U+2C1E">>, title |-> <<"U+2C1E">>],
      [c |-> "U+2C4F", lower |-> <<"U+2C4F">>, upper |-> <<"U+2C1F">>, title |-> <<"U+2C1F">>],
      [c |-> "U+2C50", lower |-> <<"U+2C50">>, upper |-> <<"U+2C20">>, title |-> <<"U+2C20">>],
      [c |-> "U+2C51", lower |-> <<"U+2C51">>, upper |-> <<"U+2C21">>, title |-> <<"U+2C21">>],
      [c |-> "U+2C52", lower |-> <<"U+2C52">>, upper |-> <<"U+2C22">>, title |-> <<"U+2C22">>],
      [c |-> "U+2C53", lower |-> <<"U+2C53">>, upper |-> <<"U+2C23">>, title |-> <<"U+2C23">>],
      [c |-> "U+2C54", lower |-> <<"U+2C54">>, upper |-> <<"U+2C24">>, title |-> <<"U+2C24">>],
      [c |-> "U+2C55", lower |-> <<"U+2C55">>, upper |-> <<"U+2C25">>, title |-> <<"U+2C25">>],
      [c |-> "U+2C56", lower |-> <<"U+2C56">>, upper |-> <<"U+2C26">>, title |-> <<"U+2C26">>],
      [c |-> "U+2C57", lower |-> <<"U+2C57">>, upper |-> <<"U+2C27">>, title |-> <<"U+2C27">>],
      [c |-> "U+2C58", lower |-> <<"U+2C58">>, upper |-> <<"U+2C28">>, title |-> <<"U+2C28">>],
      [c |-> "U+2C59", lower |-> <<"U+2C59">>, upper |-> <<"U+2C29">>, title |-> <<"U+2C29">>],
      [c |-> "U+2C5A", lower |-> <<"U+2C5A">>, upper |-> <<"U+2C2A">>, title |-> <<"U+2C2A">>],
      [c |-> "U+2C5B", lower |-> <<"U+2C5B">>, upper |-> <<"U+2C2B">>, title |-> <<"U+2C2B">>],
      [c |-> "U+2C5C", lower |-> <<"U+2C5C">>, upper |-> <<"U+2C2C">>, title |-> <<"U+2C2C">>],
      [c |-> "U+2C5D", lower |-> <<"U+2C5D">>, upper |-> <<"U+2C2D">>, title |-> <<"U+2C2D">>],
      [c |-> "U+2C5E", lower |-> <<"U+2C5E">>, upper |-> <<"U+2C2E">>, title |-> <<"U+2C2E">>],
      [c |-> "U+2C5F", lower |-> <<"U+2C5F">>, upper |-> <<"U+2C2F">>, title |-> <<"U+2C2F">>],
      [c |-> "U+2C60", lower |-> <<"U+2C61">>, upper |-> <<"U+2C60">>, title |-> <<"U+2C60">>],
      [c |-> "U+2C61", lower |-> <<"U+2C61">>, upper |-> <<"U+2C60">>, title |-> <<"U+2C60">>],
      [c |-> "U+2C62", lower |-> <<"U+026B">>, upper |-> <<"U+2C62">>, title |-> <<"U+2C62">>],
      [c |-> "U+2C63", lower |-> <<"U+1D7D">>, upper |-> <<"U+2C63">>, title |-> <<"U+2C63">>],
      [c |-> "U+2C64", lower |-> <<"U+027D">>, upper |-> <<"U+2C64">>, title |-> <<"U+2C64">>],
      [c |-> "U+2C65", lower |-> <<"U+2C65">>, upper |-> <<"U+023A">>, title |-> <<"U+023A">>],
      [c |-> "U+2C66", lower |-> <<"U+2C66">>, upper |-> <<"U+023E">>, title |-> <<"U+023E">>],
      [c |-> "U+2C67", lower |-> <<"U+2C68">>, upper |-> <<"U+2C67">>, title |-> <<"U+2C67">>],
      [c |-> "U+2C68", lower |-> <<"U+2C68">>, upper |-> <<"U+2C67">>, title |-> <<"U+2C67">>],
      [c |-> "U+2C69", lower |-> <<"U+2C6A">>, upper |-> <<"U+2C69">>, title |-> <<"U+2C69">>],
      [c |-> "U+2C6A", lower |-> <<"U+2C6A">>, upper |-> <<"U+2C69">>, title |-> <<"U+2C69">>],
      [c |-> "U+2C6B", lower |-> <<"U+2C6C">>, upper |-> <<"U+2C6B">>, title |-> <<"U+2C6B">>],
      [c |-> "U+2C6C", lower |-> <<"U+2C6C">>, upper |-> <<"U+2C6B">>, title |-> <<"U+2C6B">>],
      [c |-> "U+2C6D", lower |-> <<"U+0251">>, upper |-> <<"U+2C6D">>, title |-> <<"U+2C6D">>],
      [c |-> "U+2C6E", lower |-> <<"U+0271">>, upper |-> <<"U+2C6E">>, title |-> <<"U+2C6E">>],
      [c |-> "U+2C6F", lower |-> <<"U+0250">>, upper |-> <<"U+2C6F">>, title |-> <<"U+2C6F">>],
      [c |-> "U+2C70", lower |-> <<"U+0252">>, upper |-> <<"U+2C70">>, title |-> <<"U+2C70">>],
      [c |-> "U+2C72", lower |-> <<"U+2C73">>, upper |-> <<"U+2C72">>, title |-> <<"U+2C72">>],
      [c |-> "U+2C73", lower |-> <<"U+2C73">>, upper |-> <<"U+2C72">>, title |-> <<"U+2C72">>],
      [c |-> "U+2C75", lower |-> <<"U+2C76">>, upper |-> <<"U+2C75">>, title |-> <<"U+2C75">>],
      [c |-> "U+2C76", lower |-> <<"U+2C76">>, upper |-> <<"U+2C75">>, title |-> <<"U+2C75">>],
      [c |-> "U+2C7E", lower |-> <<"U+023F">>, upper |-> <<"U+2C7E">>, title |-> <<"U+2C7E">>],
      [c |-> "U+2C7F", lower |-> <<"U+0240">>, upper |-> <<"U+2C7F">>, title |-> <<"U+2C7F">>],
      [c |-> "U+2C80", lower |-> <<"U+2C81">>, upper |-> <<"U+2C80">>, title |-> <<"U+2C80">>],
      [c |-> "U+2C81", lower |-> <<"U+2C81">>, upper |-> <<"U+2C80">>, title |-> <<"U+2C80">>],
      [c |-> "U+2C82", lower |-> <<"U+2C83">>, upper |-> <<"U+2C82">>, title |-> <<"U+2C82">>],
      [c |-> "U+2C83", lower |-> <<"U+2C83">>, upper |-> <<"U+2C82">>, title |-> <<"U+2C82">>],
      [c |-> "U+2C84", lower |-> <<"U+2C85">>, upper |-> <<"U+2C84">>, title |-> <<"U+2C84">>],
      [c |-> "U+2C85", lower |-> <<"U+2C85">>, upper |-> <<"U+2C84">>, title |-> <<"U+2C84">>],
      [c |-> "U+2C86", lower |-> <<"U+2C87">>, upper |-> <<"U+2C86">>, title |-> <<"U+2C86">>],
      [c |-> "U+2C87", lower |-> <<"U+2C87">>, upper |-> <<"U+2C86">>, title |-> <<"U+2C86">>],
      [c |-> "U+2C88", lower |-> <<"U+2C89">>, upper |-> <<"U+2C88">>, title |-> <<"U+2C88">>],
      [c |-> "U+2C89", lower |-> <<"U+2C89">>, upper |-> <<"U+2C88">>, title |-> <<"U+2C88">>],
      [c |-> "U+2C8A", lower |-> <<"U+2C8B">>, upper |-> <<"U+2C8A">>, title |-> <<"U+2C8A">>],
      [c |-> "U+2C8B", lower |-> <<"U+2C8B">>, upper |-> <<"U+2C8A">>, title |-> <<"U+2C8A">>],
      [c |-> "U+2C8C", lower |-> <<"U+2C8D">>, upper |-> <<"U+2C8C">>, title |-> <<"U+2C8C">>],
      [c |-> "U+2C8D", lower |-> <<"U+2C8D">>, upper |-> <<"U+2C8C">>, title |-> <<"U+2C8C">>],
      [c |-> "U+2C8E", lower |-> <<"U+2C8F">>, upper |-> <<"U+2C8E">>, title |-> <<"U+2C8E">>],
      [c |-> "U+2C8F", lower |-> <<"U+2C8F">>, upper |-> <<"U+2C8E">>, title |-> <<"U+2C8E">>],
      [c |-> "U+2C90", lower |-> <<"U+2C91">>, upper |-> <<"U+2C90">>, title |-> <<"U+2C90">>],
      [c |-> "U+2C91", lower |-> <<"U+2C91">>, upper |-> <<"U+2C90">>, title |-> <<"U+2C90">>],
      [c |-> "U+2C92", lower |-> <<"U+2C93">>, upper |-> <<"U+2C92">>, title |-> <<"U+2C92">>],
      [c |-> "U+2C93", lower |-> <<"U+2C93">>, upper |-> <<"U+2C92">>, title |-> <<"U+2C92">>],
      [c |-> "U+2C94", lower |-> <<"U+2C95">>, upper |-> <<"U+2C94">>, title |-> <<"U+2C94">>],
      [c |-> "U+2C95", lower |-> <<"U+2C95">>, upper |-> <<"U+2C94">>, title |-> <<"U+2C94">>],
      [c |-> "U+2C96", lower |-> <<"U+2C97">>, upper |-> <<"U+2C96">>, title |-> <<"U+2C96">>],
      [c |-> "U+2C97", lower |-> <<"U+2C97">>, upper |-> <<"U+2C96">>, title |-> <<"U+2C96">>],
      [c |-> "U+2C98", lower |-> <<"U+2C99">>, upper |-> <<"U+2C98">>, title |-> <<"U+2C98">>],
      [c |-> "U+2C99", lower |-> <<"U+2C99">>, upper |-> <<"U+2C98">>, title |-> <<"U+2C98">>],
      [c |-> "U+2C9A", lower |-> <<"U+2C9B">>, upper |-> <<"U+2C9A">>, title |-> <<"U+2C9A">>],
      [c |-> "U+2C9B", lower |-> <<"U+2C9B">>, upper |-> <<"U+2C9A">>, title |-> <<"U+2C9A">>],
      [c |-> "U+2C9C", lower |-> <<"U+2C9D">>, upper |-> <<"U+2C9C">>, title |-> <<"U+2C9C">>],
      [c |-> "U+2C9D", lower |-> <<"U+2C9D">>, upper |-> <<"U+2C9C">>, title |-> <<"U+2C9C">>],
      [c |-> "U+2C9E", lower |-> <<"U+2C9F">>, upper |-> <<"U+2C9E">>, title |-> <<"U+2C9E">>],
      [c |-> "U+2C9F", lower |-> <<"U+2C9F">>, upper |-> <<"U+2C9E">>, title |-> <<"U+2C9E">>],
      [c |-> "U+2CA0", lower |-> <<"U+2CA1">>, upper |-> <<"U+2CA0">>, title |-> <<"U+2CA0">>],
      [c |-> "U+2CA1", lower |-> <<"U+2CA1">>, upper |-> <<"U+2CA0">>, title |-> <<"U+2CA0">>],
      [c |-> "U+2CA2", lower |-> <<"U+2CA3">>, upper |-> <<"U+2CA2">>, title |-> <<"U+2CA2">>],
      [c |-> "U+2CA3", lower |-> <<"U+2CA3">>, upper |-> <<"U+2CA2">>, title |-> <<"U+2CA2">>],
      [c |-> "U+2CA4", lower |-> <<"U+2CA5">>, upper |-> <<"U+2CA4">>, title |-> <<"U+2CA4">>],
      [c |-> "U+2CA5", lower |-> <<"U+2CA5">>, upper |-> <<"U+2CA4">>, title |-> <<"U+2CA4">>],
      [c |-> "U+2CA6", lower |-> <<"U+2CA7">>, upper |-> <<"U+2CA6">>, title |-> <<"U+2CA6">>],
      [c |-> "U+2CA7", lower |-> <<"U+2CA7">>, upper |-> <<"U+2CA6">>, title |-> <<"U+2CA6">>],
      [c |-> "U+2CA8", lower |-> <<"U+2CA9">>, upper |-> <<"U+2CA8">>, title |-> <<"U+2CA8">>],
      [c |-> "U+2CA9", lower |-> <<"U+2CA9">>, upper |-> <<"U+2CA8">>, title |-> <<"U+2CA8">>],
      [c |-> "U+2CAA", lower |-> <<"U+2CAB">>, upper |-> <<"U+2CAA">>, title |-> <<"U+2CAA">>],
      [c |-> "U+2CAB", lower |-> <<"U+2CAB">>, upper |-> <<"U+2CAA">>, title |-> <<"U+2CAA">>],
      [c |-> "U+2CAC", lower |-> <<"U+2CAD">>, upper |-> <<"U+2CAC">>, title |-> <<"U+2CAC">>],
      [c |-> "U+2CAD", lower |-> <<"U+2CAD">>, upper |-> <<"U+2CAC">>, title |-> <<"U+2CAC">>],
      [c |-> "U+2CAE", lower |-> <<"U+2CAF">>, upper |-> <<"U+2CAE">>, title |-> <<"U+2CAE">>],
      [c |-> "U+2CAF", lower |-> <<"U+2CAF">>, upper |-> <<"U+2CAE">>, title |-> <<"U+2CAE">>],
      [c |-> "U+2CB0", lower |-> <<"U+2CB1">>, upper |-> <<"U+2CB0">>, title |-> <<"U+2CB0">>],
      [c |-> "U+2CB1", lower |-> <<"U+2CB1">>, upper |-> <<"U+2CB0">>, title |-> <<"U+2CB0">>],
      [c |-> "U+2CB2", lower |-> <<"U+2CB3">>, upper |-> <<"U+2CB2">>, title |-> <<"U+2CB2">>],
      [c |-> "U+2CB3", lower |-> <<"U+2CB3">>, upper |-> <<"U+2CB2">>, title |-> <<"U+2CB2">>],
      [c |-> "U+2CB4", lower |-> <<"U+2CB5">>, upper |-> <<"U+2CB4">>, title |-> <<"U+2CB4">>],
      [c |-> "U+2CB5", lower |-> <<"U+2CB5">>, upper |-> <<"U+2CB4">>, title |-> <<"U+2CB4">>],
      [c |-> "U+2CB6", lower |-> <<"U+2CB7">>, upper |-> <<"U+2CB6">>, title |-> <<"U+2CB6">>],
      [c |-> "U+2CB7", lower |-> <<"U+2CB7">>, upper |-> <<"U+2CB6">>, title |-> <<"U+2CB6">>],
      [c |-> "U+2CB8", lower |-> <<"U+2CB9">>, upper |-> <<"U+2CB8">>, title |-> <<"U+2CB8">>],
      [c |-> "U+2CB9", lower |-> <<"U+2CB9">>, upper |-> <<"U+2CB8">>, title |-> <<"U+2CB8">>],
      [c |-> "U+2CBA", lower |-> <<"U+2CBB">>, upper |-> <<"U+2CBA">>, title |-> <<"U+2CBA">>],
      [c |-> "U+2CBB", lower |-> <<"U+2CBB">>, upper |-> <<"U+2CBA">>, title |-> <<"U+2CBA">>],
      [c |-> "U+2CBC", lower |-> <<"U+2CBD">>, upper |-> <<"U+2CBC">>, title |-> <<"U+2CBC">>],
      [c |-> "U+2CBD", lower |-> <<"U+2CBD">>, upper |-> <<"U+2CBC">>, title |-> <<"U+2CBC">>],
      [c |-> "U+2CBE", lower |-> <<"U+2CBF">>, upper |-> <<"U+2CBE">>, title |-> <<"U+2CBE">>],
      [c |-> "U+2CBF", lower |-> <<"U+2CBF">>, upper |-> <<"U+2CBE">>, title |-> <<"U+2CBE">>],
      [c |-> "U+2CC0", lower |-> <<"U+2CC1">>, upper |-> <<"U+2CC0">>, title |-> <<"U+2CC0">>],
      [c |-> "U+2CC1", lower |-> <<"U+2CC1">>, upper |-> <<"U+2CC0">>, title |-> <<"U+2CC0">>],
      [c |-> "U+2CC2", lower |-> <<"U+2CC3">>, upper |-> <<"U+2CC2">>, title |-> <<"U+2CC2">>],
      [c |-> "U+2CC3", lower |-> <<"U+2CC3">>, upper |-> <<"U+2CC2">>, title |-> <<"U+2CC2">>],
      [c |-> "U+2CC4", lower |-> <<"U+2CC5">>, upper |-> <<"U+2CC4">>, title |-> <<"U+2CC4">>],
      [c |-> "U+2CC5", lower |-> <<"U+2CC5">>, upper |-> <<"U+2CC4">>, title |-> <<"U+2CC4">>],
      [c |-> "U+2CC6", lower |-> <<"U+2CC7">>, upper |-> <<"U+2CC6">>, title |-> <<"U+2CC6">>],
      [c |-> "U+2CC7", lower |-> <<"U+2CC7">>, upper |-> <<"U+2CC6">>, title |-> <<"U+2CC6">>],
      [c |-> "U+2CC8", lower |-> <<"U+2CC9">>, upper |-> <<"U+2CC8">>, title |-> <<"U+2CC8">>],
      [c |-> "U+2CC9", lower |-> <<"U+2CC9">>, upper |-> <<"U+2CC8">>, title |-> <<"U+2CC8">>],
      [c |-> "U+2CCA", lower |-> <<"U+2CCB">>, upper |-> <<"U+2CCA">>, title |-> <<"U+2CCA">>],
      [c |-> "U+2CCB", lower |-> <<"U+2CCB">>, upper |-> <<"U+2CCA">>, title |-> <<"U+2CCA">>],
      [c |-> "U+2CCC", lower |-> <<"U+2CCD">>, upper |-> <<"U+2CCC">>, title |-> <<"U+2CCC">>],
      [c |-> "U+2CCD", lower |-> <<"U+2CCD">>, upper |-> <<"U+2CCC">>, title |-> <<"U+2CCC">>],
      [c |-> "U+2CCE", lower |-> <<"U+2CCF">>, upper |-> <<"U+2CCE">>, title |-> <<"U+2CCE">>],
      [c |-> "U+2CCF", lower |-> <<"U+2CCF">>, upper |-> <<"U+2CCE">>, title |-> <<"U+2CCE">>],
      [c |-> "U+2CD0", lower |-> <<"U+2CD1">>, upper |-> <<"U+2CD0">>, title |-> <<"U+2CD0">>],
      [c |-> "U+2CD1", lower |-> <<"U+2CD1">>, upper |-> <<"U+2CD0">>, title |-> <<"U+2CD0">>],
      [c |-> "U+2CD2", lower |-> <<"U+2CD3">>, upper |-> <<"U+2CD2">>, title |-> <<"U+2CD2">>],
      [c |-> "U+2CD3", lower |-> <<"U+2CD3">>, upper |-> <<"U+2CD2">>, title |-> <<"U+2CD2">>],
      [c |-> "U+2CD4", lower |-> <<"U+2CD5">>, upper |-> <<"U+2CD4">>, title |-> <<"U+2CD4">>],
      [c |-> "U+2CD5", lower |-> <<"U+2CD5">>, upper |-> <<"U+2CD4">>, title |-> <<"U+2CD4">>],
      [c |-> "U+2CD6", lower |-> <<"U+2CD7">>, upper |-> <<"U+2CD6">>, title |-> <<"U+2CD6">>],
      [c |-> "U+2CD7", lower |-> <<"U+2CD7">>, upper |-> <<"U+2CD6">>, title |-> <<"U+2CD6">>],
      [c |-> "U+2CD8", lower |-> <<"U+2CD9">>, upper |-> <<"U+2CD8">>, title |-> <<"U+2CD8">>],
      [c |-> "U+2CD9", lower |-> <<"U+2CD9">>, upper |-> <<"U+2CD8">>, title |-> <<"U+2CD8">>],
      [c |-> "U+2CDA", lower |-> <<"U+2CDB">>, upper |-> <<"U+2CDA">>, title |-> <<"U+2CDA">>],
      [c |-> "U+2CDB", lower |-> <<"U+2CDB">>, upper |-> <<"U+2CDA">>, title |-> <<"U+2CDA">>],
      [c |-> "U+2CDC", lower |-> <<"U+2CDD">>, upper |-> <<"U+2CDC">>, title |-> <<"U+2CDC">>],
      [c |-> "U+2CDD", lower |-> <<"U+2CDD">>, upper |-> <<"U+2CDC">>, title |-> <<"U+2CDC">>],
      [c |-> "U+2CDE", lower |-> <<"U+2CDF">>, upper |-> <<"U+2CDE">>, title |-> <<"U+2CDE">>],
      [c |-> "U+2CDF", lower |-> <<"U+2CDF">>, upper |-> <<"U+2CDE">>, title |-> <<"U+2CDE">>],
      [c |-> "U+2CE0", lower |-> <<"U+2CE1">>, upper |-> <<"U+2CE0">>, title |-> <<"U+2CE0">>],
      [c |-> "U+2CE1", lower |-> <<"U+2CE1">>, upper |-> <<"U+2CE0">>, title |-> <<"U+2CE0">>],
      [c |-> "U+2CE2", lower |-> <<"U+2CE3">>, upper |-> <<"U+2CE2">>, title |-> <<"U+2CE2">>],
      [c |-> "U+2CE3", lower |-> <<"U+2CE3">>, upper |-> <<"U+2CE2">>, title |-> <<"U+2CE2">>],
      [c |-> "U+2CEB", lower |-> <<"U+2CEC">>, upper |-> <<"U+2CEB">>, title |-> <<"U+2CEB">>],
      [c |-> "U+2CEC", lower |-> <<"U+2CEC">>, upper |-> <<"U+2CEB">>, title |-> <<"U+2CEB">>],
      [c |-> "U+2CED", lower |-> <<"U+2CEE">>, upper |-> <<"U+2CED">>, title |-> <<"U+2CED">>],
      [c |-> "U+2CEE", lower |-> <<"U+2CEE">>, upper |-> <<"U+2CED">>, title |-> <<"U+2CED">>],
      [c |-> "U+2CF2", lower |-> <<"U+2CF3">>, upper |-> <<"U+2CF2">>, title |-> <<"U+2CF2">>],
      [c |-> "U+2CF3", lower |-> <<"U+2CF3">>, upper |-> <<"U+2CF2">>, title |-> <<"U+2CF2">>],
      [c |-> "U+2D00", lower |-> <<"U+2D00">>, upper |-> <<"U+10A0">>, title |-> <<"U+10A0">>],
      [c |-> "U+2D01", lower |-> <<"U+2D01">>, upper |-> <<"U+10A1">>, title |-> <<"U+10A1">>],
      [c |-> "U+2D02", lower |-> <<"U+2D02">>, upper |-> <<"U+10A2">>, title |-> <<"U+10A2">>],
      [c |-> "U+2D03", lower |-> <<"U+2D03">>, upper |-> <<"U+10A3">>, title |-> <<"U+10A3">>],
      [c |-> "U+2D04", lower |-> <<"U+2D04">>, upper |-> <<"U+10A4">>, title |-> <<"U+10A4">>],
      [c |-> "U+2D05", lower |-> <<"U+2D05">>, upper |-> <<"U+10A5">>, title |-> <<"U+10A5">>],
      [c |-> "U+2D06", lower |-> <<"U+2D06">>, upper |-> <<"U+10A6">>, title |-> <<"U+10A6">>],
      [c |-> "U+2D07", lower |-> <<"U+2D07">>, upper |-> <<"U+10A7">>, title |-> <<"U+10A7">>],
      [c |-> "U+2D08", lower |-> <<"U+2D08">>, upper |-> <<"U+10A8">>, title |-> <<"U+10A8">>],
      [c |-> "U+2D09", lower |-> <<"U+2D09">>, upper |-> <<"U+10A9">>, title |-> <<"U+10A9">>],
      [c |-> "U+2D0A", lower |-> <<"U+2D0A">>, upper |-> <<"U+10AA">>, title |-> <<"U+10AA">>],
      [c |-> "U+2D0B", lower |-> <<"U+2D0B">>, upper |-> <<"U+10AB">>, title |-> <<"U+10AB">>],
      [c |-> "U+2D0C", lower |-> <<"U+2D0C">>, upper |-> <<"U+10AC">>, title |-> <<"U+10AC">>],
      [c |-> "U+2D0D", lower |-> <<"U+2D0D">>, upper |-> <<"U+10AD">>, title |-> <<"U+10AD">>],
      [c |-> "U+2D0E", lower |-> <<"U+2D0E">>, upper |-> <<"U+10AE">>, title |-> <<"U+10AE">>],
      [c |-> "U+2D0F", lower |-> <<"U+2D0F">>, upper |-> <<"U+10AF">>, title |-> <<"U+10AF">>],
      [c |-> "U+2D10", lower |-> <<"U+2D10">>, upper |-> <<"U+10B0">>, title |-> <<"U+10B0">>],
      [c |-> "U+2D11", lower |-> <<"U+2D11">>, upper |-> <<"U+10B1">>, title |-> <<"U+10B1">>],
      [c |-> "U+2D12", lower |-> <<"U+2D12">>, upper |-> <<"U+10B2">>, title |-> <<"U+10B2">>],
      [c |-> "U+2D13", lower |-> <<"U+2D13">>, upper |-> <<"U+10B3">>, title |-> <<"U+10B3">>],
      [c |-> "U+2D14", lower |-> <<"U+2D14">>, upper |-> <<"U+10B4">>, title |-> <<"U+10B4">>],
      [c |-> "U+2D15", lower |-> <<"U+2D15">>, upper |-> <<"U+10B5">>, title |-> <<"U+10B5">>],
      [c |-> "U+2D16", lower |-> <<"U+2D16">>, upper |-> <<"U+10B6">>, title |-> <<"U+10B6">>],
      [c |-> "U+2D17", lower |-> <<"U+2D17">>, upper |-> <<"U+10B7">>, title |-> <<"U+10B7">>],
      [c |-> "U+2D18", lower |-> <<"U+2D18">>, upper |-> <<"U+10B8">>, title |-> <<"U+10B8">>],
      [c |-> "U+2D19", lower |-> <<"U+2D19">>, upper |-> <<"U+10B9">>, title |-> <<"U+10B9">>],
      [c |-> "U+2D1A", lower |-> <<"U+2D1A">>, upper |-> <<"U+10BA">>, title |-> <<"U+10BA">>],
      [c |-> "U+2D1B", lower |-> <<"U+2D1B">>, upper |-> <<"U+10BB">>, title |-> <<"U+10BB">>],
      [c |-> "U+2D1C", lower |-> <<"U+2D1C">>, upper |-> <<"U+10BC">>, title |-> <<"U+10BC">>],
      [c |-> "U+2D1D", lower |-> <<"U+2D1D">>, upper |-> <<"U+10BD">>, title |-> <<"U+10BD">>],
      [c |-> "U+2D1E", lower |-> <<"U+2D1E">>, upper |-> <<"U+10BE">>, title |-> <<"U+10BE">>],
      [c |-> "U+2D1F", lower |-> <<"U+2D1F">>, upper |-> <<"U+10BF">>, title |-> <<"U+10BF">>],
      [c |-> "U+2D20", lower |-> <<"U+2D20">>, upper |-> <<"U+10C0">>, title |-> <<"U+10C0">>],
      [c |-> "U+2D21", lower |-> <<"U+2D21">>, upper |-> <<"U+10C1">>, title |-> <<"U+10C1">>],
      [c |-> "U+2D22", lower |-> <<"U+2D22">>, upper |-> <<"U+10C2">>, title |-> <<"U+10C2">>],
      [c |-> "U+2D23", lower |-> <<"U+2D23">>, upper |-> <<"U+10C3">>, title |-> <<"U+10C3">>],
      [c |-> "U+2D24", lower |-> <<"U+2D24">>, upper |-> <<"U+10C4">>, title |-> <<"U+10C4">>],
      [c |-> "U+2D25", lower |-> <<"U+2D25">>, upper |-> <<"U+10C5">>, title |-> <<"U+10C5">>],
      [c |-> "U+2D27", lower |-> <<"U+2D27">>, upper |-> <<"U+10C7">>, title |-> <<"U+10C7">>],
      [c |-> "U+2D2D", lower |-> <<"U+2D2D">>, upper |-> <<"U+10CD">>, title |-> <<"U+10CD">>],
      [c |-> "U+A640", lower |-> <<"U+A641">>, upper |-> <<"U+A640">>, title |-> <<"U+A640">>],
      [c |-> "U+A641", lower |-> <<"U+A641">>, upper |-> <<"U+A640">>, title |-> <<"U+A640">>],
      [c |-> "U+A642", lower |-> <<"U+A643">>, upper |-> <<"U+A642">>, title |-> <<"U+A642">>],
      [c |-> "U+A643", lower |-> <<"U+A643">>, upper |-> <<"U+A642">>, title |-> <<"U+A642">>],
      [c |-> "U+A644", lower |-> <<"U+A645">>, upper |-> <<"U+A644">>, title |-> <<"U+A644">>],
      [c |-> "U+A645", lower |-> <<"U+A645">>, upper |-> <<"U+A644">>, title |-> <<"U+A644">>],
      [c |-> "U+A646", lower |-> <<"U+A647">>, upper |-> <<"U+A646">>, title |-> <<"U+A646">>],
      [c |-> "U+A647", lower |-> <<"U+A647">>, upper |-> <<"U+A646">>, title |-> <<"U+A646">>],
      [c |-> "U+A648", lower |-> <<"U+A649">>, upper |-> <<"U+A648">>, title |-> <<"U+A648">>],
      [c |-> "U+A649", lower |-> <<"U+A649">>, upper |-> <<"U+A648">>, title |-> <<"U+A648">>],
      [c |-> "U+A64A", lower |-> <<"U+A64B">>, upper |-> <<"U+A64A">>, title |-> <<"U+A64A">>],
      [c |-> "U+A64B", lower |-> <<"U+A64B">>, upper |-> <<"U+A64A">>, title |-> <<"U+A64A">>],
      [c |-> "U+A64C", lower |-> <<"U+A64D">>, upper |-> <<"U+A64C">>, title |-> <<"U+A64C">>],
      [c |-> "U+A64D", lower |-> <<"U+A64D">>, upper |-> <<"U+A64C">>, title |-> <<"U+A64C">>],
      [c |-> "U+A64E", lower |-> <<"U+A64F">>, upper |-> <<"U+A64E">>, title |-> <<"U+A64E">>],
      [c |-> "U+A64F", lower |-> <<"U+A64F">>, upper |-> <<"U+A64E">>, title |-> <<"U+A64E">>],
      [c |-> "U+A650", lower |-> <<"U+A651">>, upper |-> <<"U+A650">>, title |-> <<"U+A650">>],
      [c |-> "U+A651", lower |-> <<"U+A651">>, upper |-> <<"U+A650">>, title |-> <<"U+A650">>],
      [c |-> "U+A652", lower |-> <<"U+A653">>, upper |-> <<"U+A652">>, title |-> <<"U+A652">>],
      [c |-> "U+A653", lower |-> <<"U+A653">>, upper |-> <<"U+A652">>, title |-> <<"U+A652">>],
      [c |-> "U+A654", lower |-> <<"U+A655">>, upper |-> <<"U+A654">>, title |-> <<"U+A654">>],
      [c |-> "U+A655", lower |-> <<"U+A655">>, upper |-> <<"U+A654">>, title |-> <<"U+A654">>],
      [c |-> "U+A656", lower |-> <<"U+A657">>, upper |-> <<"U+A656">>, title |-> <<"U+A656">>],
      [c |-> "U+A657", lower |-> <<"U+A657">>, upper |-> <<"U+A656">>, title |-> <<"U+A656">>],
      [c |-> "U+A658", lower |-> <<"U+A659">>, upper |-> <<"U+A658">>, title |-> <<"U+A658">>],
      [c |-> "U+A659", lower |-> <<"U+A659">>, upper |-> <<"U+A658">>, title |-> <<"U+A658">>],
      [c |-> "U+A65A", lower |-> <<"U+A65B">>, upper |-> <<"U+A65A">>, title |-> <<"U+A65A">>],
      [c |-> "U+A65B", lower |-> <<"U+A65B">>, upper |-> <<"U+A65A">>, title |-> <<"U+A65A">>],
      [c |-> "U+A65C", lower |-> <<"U+A65D">>, upper |-> <<"U+A65C">>, title |-> <<"U+A65C">>],
      [c |-> "U+A65D", lower |-> <<"U+A65D">>, upper |-> <<"U+A65C">>, title |-> <<"U+A65C">>],
      [c |-> "U+A65E", lower |-> <<"U+A65F">>, upper |-> <<"U+A65E">>, title |-> <<"U+A65E">>],
      [c |-> "U+A65F", lower |-> <<"U+A65F">>, upper |-> <<"U+A65E">>, title |-> <<"U+A65E">>],
      [c |-> "U+A660", lower |-> <<"U+A661">>, upper |-> <<"U+A660">>, title |-> <<"U+A660">>],
      [c |-> "U+A661", lower |-> <<"U+A661">>, upper |-> <<"U+A660">>, title |-> <<"U+A660">>],
      [c |-> "U+A662", lower |-> <<"U+A663">>, upper |-> <<"U+A662">>, title |-> <<"U+A662">>],
      [c |-> "U+A663", lower |-> <<"U+A663">>, upper |-> <<"U+A662">>, title |-> <<"U+A662">>],
      [c |-> "U+A664", lower |-> <<"U+A665">>, upper |-> <<"U+A664">>, title |-> <<"U+A664">>],
      [c |-> "U+A665", lower |-> <<"U+A665">>, upper |-> <<"U+A664">>, title |-> <<"U+A664">>],
      [c |-> "U+A666", lower |-> <<"U+A667">>, upper |-> <<"U+A666">>, title |-> <<"U+A666">>],
      [c |-> "U+A667", lower |-> <<"U+A667">>, upper |-> <<"U+A666">>, title |-> <<"U+A666">>],
      [c |-> "U+A668", lower |-> <<"U+A669">>, upper |-> <<"U+A668">>, title |-> <<"U+A668">>],
      [c |-> "U+A669", lower |-> <<"U+A669">>, upper |-> <<"U+A668">>, title |-> <<"U+A668">>],
      [c |-> "U+A66A", lower |-> <<"U+A66B">>, upper |-> <<"U+A66A">>, title |-> <<"U+A66A">>],
      [c |-> "U+A66B", lower |-> <<"U+A66B">>, upper |-> <<"U+A66A">>, title |-> <<"U+A66A">>],
      [c |-> "U+A66C", lower |-> <<"U+A66D">>, upper |-> <<"U+A66C">>, title |-> <<"U+A66C">>],
      [c |-> "U+A66D", lower |-> <<"U+A66D">>, upper |-> <<"U+A66C">>, title |-> <<"U+A66C">>],
      [c |-> "U+A680", lower |-> <<"U+A681">>, upper |-> <<"U+A680">>, title |-> <<"U+A680">>],
      [c |-> "U+A681", lower |-> <<"U+A681">>, upper |-> <<"U+A680">>, title |-> <<"U+A680">>],
      [c |-> "U+A682", lower |-> <<"U+A683">>, upper |-> <<"U+A682">>, title |-> <<"U+A682">>],
      [c |-> "U+A683", lower |-> <<"U+A683">>, upper |-> <<"U+A682">>, title |-> <<"U+A682">>],
      [c |-> "U+A684", lower |-> <<"U+A685">>, upper |-> <<"U+A684">>, title |-> <<"U+A684">>],
      [c |-> "U+A685", lower |-> <<"U+A685">>, upper |-> <<"U+A684">>, title |-> <<"U+A684">>],
      [c |-> "U+A686", lower |-> <<"U+A687">>, upper |-> <<"U+A686">>, title |-> <<"U+A686">>],
      [c |-> "U+A687", lower |-> <<"U+A687">>, upper |-> <<"U+A686">>, title |-> <<"U+A686">>],
      [c |-> "U+A688", lower |-> <<"U+A689">>, upper |-> <<"U+A688">>, title |-> <<"U+A688">>],
      [c |-> "U+A689", lower |-> <<"U+A689">>, upper |-> <<"U+A688">>, title |-> <<"U+A688">>],
      [c |-> "U+A68A", lower |-> <<"U+A68B">>, upper |-> <<"U+A68A">>, title |-> <<"U+A68A">>],
      [c |-> "U+A68B", lower |-> <<"U+A68B">>, upper |-> <<"U+A68A">>, title |-> <<"U+A68A">>],
      [c |-> "U+A68C", lower |-> <<"U+A68D">>, upper |-> <<"U+A68C">>, title |-> <<"U+A68C">>],
      [c |-> "U+A68D", lower |-> <<"U+A68D">>, upper |-> <<"U+A68C">>, title |-> <<"U+A68C">>],
      [c |-> "U+A68E", lower |-> <<"U+A68F">>, upper |-> <<"U+A68E">>, title |-> <<"U+A68E">>],
      [c |-> "U+A68F", lower |-> <<"U+A68F">>, upper |-> <<"U+A68E">>, title |-> <<"U+A68E">>],
      [c |-> "U+A690", lower |-> <<"U+A691">>, upper |-> <<"U+A690">>, title |-> <<"U+A690">>],
      [c |-> "U+A691", lower |-> <<"U+A691">>, upper |-> <<"U+A690">>, title |-> <<"U+A690">>],
      [c |-> "U+A692", lower |-> <<"U+A693">>, upper |-> <<"U+A692">>, title |-> <<"U+A692">>],
      [c |-> "U+A693", lower |-> <<"U+A693">>, upper |-> <<"U+A692">>, title |-> <<"U+A692">>],
      [c |-> "U+A694", lower |-> <<"U+A695">>, upper |-> <<"U+A694">>, title |-> <<"U+A694">>],
      [c |-> "U+A695", lower |-> <<"U+A695">>, upper |-> <<"U+A694">>, title |-> <<"U+A694">>],
      [c |-> "U+A696", lower |-> <<"U+A697">>, upper |-> <<"U+A696">>, title |-> <<"U+A696">>],
      [c |-> "U+A697", lower |-> <<"U+A697">>, upper |-> <<"U+A696">>, title |-> <<"U+A696">>],
      [c |-> "U+A698", lower |-> <<"U+A699">>, upper |-> <<"U+A698">>, title |-> <<"U+A698">>],
      [c |-> "U+A699", lower |-> <<"U+A699">>, upper |-> <<"U+A698">>, title |-> <<"U+A698">>],
      [c |-> "U+A69A", lower |-> <<"U+A69B">>, upper |-> <<"U+A69A">>, title |-> <<"U+A69A">>],
      [c |-> "U+A69B", lower |-> <<"U+A69B">>, upper |-> <<"U+A69A">>, title |-> <<"U+A69A">>],
      [c |-> "U+A722", lower |-> <<"U+A723">>, upper |-> <<"U+A722">>, title |-> <<"U+A722">>],
      [c |-> "U+A723", lower |-> <<"U+A723">>, upper |-> <<"U+A722">>, title |-> <<"U+A722">>],
      [c |-> "U+A724", lower |-> <<"U+A725">>, upper |-> <<"U+A724">>, title |-> <<"U+A724">>],
      [c |-> "U+A725", lower |-> <<"U+A725">>, upper |-> <<"U+A724">>, title |-> <<"U+A724">>],
      [c |-> "U+A726", lower |-> <<"U+A727">>, upper |-> <<"U+A726">>, title |-> <<"U+A726">>],
      [c |-> "U+A727", lower |-> <<"U+A727">>, upper |-> <<"U+A726">>, title |-> <<"U+A726">>],
      [c |-> "U+A728", lower |-> <<"U+A729">>, upper |-> <<"U+A728">>, title |-> <<"U+A728">>],
      [c |-> "U+A729", lower |-> <<"U+A729">>, upper |-> <<"U+A728">>, title |-> <<"U+A728">>],
      [c |-> "U+A72A", lower |-> <<"U+A72B">>, upper |-> <<"U+A72A">>, title |-> <<"U+A72A">>],
      [c |-> "U+A72B", lower |-> <<"U+A72B">>, upper |-> <<"U+A72A">>, title |-> <<"U+A72A">>],
      [c |-> "U+A72C", lower |-> <<"U+A72D">>, upper |-> <<"U+A72C">>, title |-> <<"U+A72C">>],
      [c |-> "U+A72D", lower |-> <<"U+A72D">>, upper |-> <<"U+A72C">>, title |-> <<"U+A72C">>],
      [c |-> "U+A72E", lower |-> <<"U+A72F">>, upper |-> <<"U+A72E">>, title |-> <<"U+A72E">>],
      [c |-> "U+A72F", lower |-> <<"U+A72F">>, upper |-> <<"U+A72E">>, title |-> <<"U+A72E">>],
      [c |-> "U+A732", lower |-> <<"U+A733">>, upper |-> <<"U+A732">>, title |-> <<"U+A732">>],
      [c |-> "U+A733", lower |-> <<"U+A733">>, upper |-> <<"U+A732">>, title |-> <<"U+A732">>],
      [c |-> "U+A734", lower |-> <<"U+A735">>, upper |-> <<"U+A734">>, title |-> <<"U+A734">>],
      [c |-> "U+A735", lower |-> <<"U+A735">>, upper |-> <<"U+A734">>, title |-> <<"U+A734">>],
      [c |-> "U+A736", lower |-> <<"U+A737">>, upper |-> <<"U+A736">>, title |-> <<"U+A736">>],
      [c |-> "U+A737", lower |-> <<"U+A737">>, upper |-> <<"U+A736">>, title |-> <<"U+A736">>],
      [c |-> "U+A738", lower |-> <<"U+A739">>, upper |-> <<"U+A738">>, title |-> <<"U+A738">>],
      [c |-> "U+A739", lower |-> <<"U+A739">>, upper |-> <<"U+A738">>, title |-> <<"U+A738">>],
      [c |-> "U+A73A", lower |-> <<"U+A73B">>, upper |-> <<"U+A73A">>, title |-> <<"U+A73A">>],
      [c |-> "U+A73B", lower |-> <<"U+A73B">>, upper |-> <<"U+A73A">>, title |-> <<"U+A73A">>],
      [c |-> "U+A73C", lower |-> <<"U+A73D">>, upper |-> <<"U+A73C">>, title |-> <<"U+A73C">>],
      [c |-> "U+A73D", lower |-> <<"U+A73D">>, upper |-> <<"U+A73C">>, title |-> <<"U+A73C">>],
      [c |-> "U+A73E", lower |-> <<"U+A73F">>, upper |-> <<"U+A73E">>, title |-> <<"U+A73E">>],
      [c |-> "U+A73F", lower |-> <<"U+A73F">>, upper |-> <<"U+A73E">>, title |-> <<"U+A73E">>],
      [c |-> "U+A740", lower |-> <<"U+A741">>, upper |-> <<"U+A740">>, title |-> <<"U+A740">>],
      [c |-> "U+A741", lower |-> <<"U+A741">>, upper |-> <<"U+A740">>, title |-> <<"U+A740">>],
      [c |-> "U+A742", lower |-> <<"U+A743">>, upper |-> <<"U+A742">>, title |-> <<"U+A742">>],
      [c |-> "U+A743", lower |-> <<"U+A743">>, upper |-> <<"U+A742">>, title |-> <<"U+A742">>],
      [c |-> "U+A744", lower |-> <<"U+A745">>, upper |-> <<"U+A744">>, title |-> <<"U+A744">>],
      [c |-> "U+A745", lower |-> <<"U+A745">>, upper |-> <<"U+A744">>, title |-> <<"U+A744">>],
      [c |-> "U+A746", lower |-> <<"U+A747">>, upper |-> <<"U+A746">>, title |-> <<"U+A746">>],
      [c |-> "U+A747", lower |-> <<"U+A747">>, upper |-> <<"U+A746">>, title |-> <<"U+A746">>],
      [c |-> "U+A748", lower |-> <<"U+A749">>, upper |-> <<"U+A748">>, title |-> <<"U+A748">>],
      [c |-> "U+A749", lower |-> <<"U+A749">>, upper |-> <<"U+A748">>, title |-> <<"U+A748">>],
      [c |-> "U+A74A", lower |-> <<"U+A74B">>, upper |-> <<"U+A74A">>, title |-> <<"U+A74A">>],
      [c |-> "U+A74B", lower |-> <<"U+A74B">>, upper |-> <<"U+A74A">>, title |-> <<"U+A74A">>],
      [c |-> "U+A74C", lower |-> <<"U+A74D">>, upper |-> <<"U+A74C">>, title |-> <<"U+A74C">>],
      [c |-> "U+A74D", lower |-> <<"U+A74D">>, upper |-> <<"U+A74C">>, title |-> <<"U+A74C">>],
      [c |-> "U+A74E", lower |-> <<"U+A74F">>, upper |-> <<"U+A74E">>, title |-> <<"U+A74E">>],
      [c |-> "U+A74F", lower |-> <<"U+A74F">>, upper |-> <<"U+A74E">>, title |-> <<"U+A74E">>],
      [c |-> "U+A750", lower |-> <<"U+A751">>, upper |-> <<"U+A750">>, title |-> <<"U+A750">>],
      [c |-> "U+A751", lower |-> <<"U+A751">>, upper |-> <<"U+A750">>, title |-> <<"U+A750">>],
      [c |-> "U+A752", lower |-> <<"U+A753">>, upper |-> <<"U+A752">>, title |-> <<"U+A752">>],
      [c |-> "U+A753", lower |-> <<"U+A753">>, upper |-> <<"U+A752">>, title |-> <<"U+A752">>],
      [c |-> "U+A754", lower |-> <<"U+A755">>, upper |-> <<"U+A754">>, title |-> <<"U+A754">>],
      [c |-> "U+A755", lower |-> <<"U+A755">>, upper |-> <<"U+A754">>, title |-> <<"U+A754">>],
      [c |-> "U+A756", lower |-> <<"U+A757">>, upper |-> <<"U+A756">>, title |-> <<"U+A756">>],
      [c |-> "U+A757", lower |-> <<"U+A757">>, upper |-> <<"U+A756">>, title |-> <<"U+A756">>],
      [c |-> "U+A758", lower |-> <<"U+A759">>, upper |-> <<"U+A758">>, title |-> <<"U+A758">>],
      [c |-> "U+A759", lower |-> <<"U+A759">>, upper |-> <<"U+A758">>, title |-> <<"U+A758">>],
      [c |-> "U+A75A", lower |-> <<"U+A75B">>, upper |-> <<"U+A75A">>, title |-> <<"U+A75A">>],
      [c |-> "U+A75B", lower |-> <<"U+A75B">>, upper |-> <<"U+A75A">>, title |-> <<"U+A75A">>],
      [c |-> "U+A75C", lower |-> <<"U+A75D">>, upper |-> <<"U+A75C">>, title |-> <<"U+A75C">>],
      [c |-> "U+A75D", lower |-> <<"U+A75D">>, upper |-> <<"U+A75C">>, title |-> <<"U+A75C">>],
      [c |-> "U+A75E", lower |-> <<"U+A75F">>, upper |-> <<"U+A75E">>, title |-> <<"U+A75E">>],
      [c |-> "U+A75F", lower |-> <<"U+A75F">>, upper |-> <<"U+A75E">>, title |-> <<"U+A75E">>],
      [c |-> "U+A760", lower |-> <<"U+A761">>, upper |-> <<"U+A760">>, title |-> <<"U+A760">>],
      [c |-> "U+A761", lower |-> <<"U+A761">>, upper |-> <<"U+A760">>, title |-> <<"U+A760">>],
      [c |-> "U+A762", lower |-> <<"U+A763">>, upper |-> <<"U+A762">>, title |-> <<"U+A762">>],
      [c |-> "U+A763", lower |-> <<"U+A763">>, upper |-> <<"U+A762">>, title |-> <<"U+A762">>],
      [c |-> "U+A764", lower |-> <<"U+A765">>, upper |-> <<"U+A764">>, title |-> <<"U+A764">>],
      [c |-> "U+A765", lower |-> <<"U+A765">>, upper |-> <<"U+A764">>, title |-> <<"U+A764">>],
      [c |-> "U+A766", lower |-> <<"U+A767">>, upper |-> <<"U+A766">>, title |-> <<"U+A766">>],
      [c |-> "U+A767", lower |-> <<"U+A767">>, upper |-> <<"U+A766">>, title |-> <<"U+A766">>],
      [c |-> "U+A768", lower |-> <<"U+A769">>, upper |-> <<"U+A768">>, title |-> <<"U+A768">>],
      [c |-> "U+A769", lower |-> <<"U+A769">>, upper |-> <<"U+A768">>, title |-> <<"U+A768">>],
      [c |-> "U+A76A", lower |-> <<"U+A76B">>, upper |-> <<"U+A76A">>, title |-> <<"U+A76A">>],
      [c |-> "U+A76B", lower |-> <<"U+A76B">>, upper |-> <<"U+A76A">>, title |-> <<"U+A76A">>],
      [c |-> "U+A76C", lower |-> <<"U+A76D">>, upper |-> <<"U+A76C">>, title |-> <<"U+A76C">>],
      [c |-> "U+A76D", lower |-> <<"U+A76D">>, upper |-> <<"U+A76C">>, title |-> <<"U+A76C">>],
      [c |-> "U+A76E", lower |-> <<"U+A76F">>, upper |-> <<"U+A76E">>, title |-> <<"U+A76E">>],
      [c |-> "U+A76F", lower |-> <<"U+A76F">>, upper |-> <<"U+A76E">>, title |-> <<"U+A76E">>],
      [c |-> "U+A779", lower |-> <<"U+A77A">>, upper |-> <<"U+A779">>, title |-> <<"U+A779">>],
      [c |-> "U+A77A", lower |-> <<"U+A77A">>, upper |-> <<"U+A779">>, title |-> <<"U+A779">>],
      [c |-> "U+A77B", lower |-> <<"U+A77C">>, upper |-> <<"U+A77B">>, title |-> <<"U+A77B">>],
      [c |-> "U+A77C", lower |-> <<"U+A77C">>, upper |-> <<"U+A77B">>, title |-> <<"U+A77B">>],
      [c |-> "U+A77D", lower |-> <<"U+1D79">>, upper |-> <<"U+A77D">>, title |-> <<"U+A77D">>],
      [c |-> "U+A77E", lower |-> <<"U+A77F">>, upper |-> <<"U+A77E">>, title |-> <<"U+A77E">>],
      [c |-> "U+A77F", lower |-> <<"U+A77F">>, upper |-> <<"U+A77E">>, title |-> <<"U+A77E">>],
      [c |-> "U+A780", lower |-> <<"U+A781">>, upper |-> <<"U+A780">>, title |-> <<"U+A780">>],
      [c |-> "U+A781", lower |-> <<"U+A781">>, upper |-> <<"U+A780">>, title |-> <<"U+A780">>],
      [c |-> "U+A782", lower |-> <<"U+A783">>, upper |-> <<"U+A782">>, title |-> <<"U+A782">>],
      [c |-> "U+A783", lower |-> <<"U+A783">>, upper |-> <<"U+A782">>, title |-> <<"U+A782">>],
      [c |-> "U+A784", lower |-> <<"U+A785">>, upper |-> <<"U+A784">>, title |-> <<"U+A784">>],
      [c |-> "U+A785", lower |-> <<"U+A785">>, upper |-> <<"U+A784">>, title |-> <<"U+A784">>],
      [c |-> "U+A786", lower |-> <<"U+A787">>, upper |-> <<"U+A786">>, title |-> <<"U+A786">>],
      [c |-> "U+A787", lower |-> <<"U+A787">>, upper |-> <<"U+A786">>, title |-> <<"U+A786">>],
      [c |-> "U+A78B", lower |-> <<"U+A78C">>, upper |-> <<"U+A78B">>, title |-> <<"U+A78B">>],
      [c |-> "U+A78C", lower |-> <<"U+A78C">>, upper |-> <<"U+A78B">>, title |-> <<"U+A78B">>],
      [c |-> "U+A78D", lower |-> <<"U+0265">>, upper |-> <<"U+A78D">>, title |-> <<"U+A78D">>],
      [c |-> "U+A790", lower |-> <<"U+A791">>, upper |-> <<"U+A790">>, title |-> <<"U+A790">>],
      [c |-> "U+A791", lower |-> <<"U+A791">>, upper |-> <<"U+A790">>, title |-> <<"U+A790">>],
      [c |-> "U+A792", lower |-> <<"U+A793">>, upper |-> <<"U+A792">>, title |-> <<"U+A792">>],
      [c |-> "U+A793", lower |-> <<"U+A793">>, upper |-> <<"U+A792">>, title |-> <<"U+A792">>],
      [c |-> "U+A794", lower |-> <<"U+A794">>, upper |-> <<"U+A7C4">>, title |-> <<"U+A7C4">>],
      [c |-> "U+A796", lower |-> <<"U+A797">>, upper |-> <<"U+A796">>, title |-> <<"U+A796">>],
      [c |-> "U+A797", lower |-> <<"U+A797">>, upper |-> <<"U+A796">>, title |-> <<"U+A796">>],
      [c |-> "U+A798", lower |-> <<"U+A799">>, upper |-> <<"U+A798">>, title |-> <<"U+A798">>],
      [c |-> "U+A799", lower |-> <<"U+A799">>, upper |-> <<"U+A798">>, title |-> <<"U+A798">>],
      [c |-> "U+A79A", lower |-> <<"U+A79B">>, upper |-> <<"U+A79A">>, title |-> <<"U+A79A">>],
      [c |-> "U+A79B", lower |-> <<"U+A79B">>, upper |-> <<"U+A79A">>, title |-> <<"U+A79A">>],
      [c |-> "U+A79C", lower |-> <<"U+A79D">>, upper |-> <<"U+A79C">>, title |-> <<"U+A79C">>],
      [c |-> "U+A79D", lower |-> <<"U+A79D">>, upper |-> <<"U+A79C">>, title |-> <<"U+A79C">>],
      [c |-> "U+A79E", lower |-> <<"U+A79F">>, upper |-> <<"U+A79E">>, title |-> <<"U+A79E">>],
      [c |-> "U+A79F", lower |-> <<"U+A79F">>, upper |-> <<"U+A79E">>, title |-> <<"U+A79E">>],
      [c |-> "U+A7A0", lower |-> <<"U+A7A1">>, upper |-> <<"U+A7A0">>, title |-> <<"U+A7A0">>],
      [c |-> "U+A7A1", lower |-> <<"U+A7A1">>, upper |-> <<"U+A7A0">>, title |-> <<"U+A7A0">>],
      [c |-> "U+A7A2", lower |-> <<"U+A7A3">>, upper |-> <<"U+A7A2">>, title |-> <<"U+A7A2">>],
      [c |-> "U+A7A3", lower |-> <<"U+A7A3">>, upper |-> <<"U+A7A2">>, title |-> <<"U+A7A2">>],
      [c |-> "U+A7A4", lower |-> <<"U+A7A5">>, upper |-> <<"U+A7A4">>, title |-> <<"U+A7A4">>],
      [c |-> "U+A7A5", lower |-> <<"U+A7A5">>, upper |-> <<"U+A7A4">>, title |-> <<"U+A7A4">>],
      [c |-> "U+A7A6", lower |-> <<"U+A7A7">>, upper |-> <<"U+A7A6">>, title |-> <<"U+A7A6">>],
      [c |-> "U+A7A7", lower |-> <<"U+A7A7">>, upper |-> <<"U+A7A6">>, title |-> <<"U+A7A6">>],
      [c |-> "U+A7A8", lower |-> <<"U+A7A9">>, upper |-> <<"U+A7A8">>, title |-> <<"U+A7A8">>],
      [c |-> "U+A7A9", lower |-> <<"U+A7A9">>, upper |-> <<"U+A7A8">>, title |-> <<"U+A7A8">>],
      [c |-> "U+A7AA", lower |-> <<"U+0266">>, upper |-> <<"U+A7AA">>, title |-> <<"U+A7AA">>],
      [c |-> "U+A7AB", lower |-> <<"U+025C">>, upper |-> <<"U+A7AB">>, title |-> <<"U+A7AB">>],
      [c |-> "U+A7AC", lower |-> <<"U+0261">>, upper |-> <<"U+A7AC">>, title |-> <<"U+A7AC">>],
      [c |-> "U+A7AD", lower |-> <<"U+026C">>, upper |-> <<"U+A7AD">>, title |-> <<"U+A7AD">>],
      [c |-> "U+A7AE", lower |-> <<"U+026A">>, upper |-> <<"U+A7AE">>, title |-> <<"U+A7AE">>],
      [c |-> "U+A7B0", lower |-> <<"U+029E">>, upper |-> <<"U+A7B0">>, title |-> <<"U+A7B0">>],
      [c |-> "U+A7B1", lower |-> <<"U+0287">>, upper |-> <<"U+A7B1">>, title |-> <<"U+A7B1">>],
      [c |-> "U+A7B2", lower |-> <<"U+029D">>, upper |-> <<"U+A7B2">>, title |-> <<"U+A7B2">>],
      [c |-> "U+A7B3", lower |-> <<"U+AB53">>, upper |-> <<"U+A7B3">>, title |-> <<"U+A7B3">>],
      [c |-> "U+A7B4", lower |-> <<"U+A7B5">>, upper |-> <<"U+A7B4">>, title |-> <<"U+A7B4">>],
      [c |-> "U+A7B5", lower |-> <<"U+A7B5">>, upper |-> <<"U+A7B4">>, title |-> <<"U+A7B4">>],
      [c |-> "U+A7B6", lower |-> <<"U+A7B7">>, upper |-> <<"U+A7B6">>, title |-> <<"U+A7B6">>],
      [c |-> "U+A7B7", lower |-> <<"U+A7B7">>, upper |-> <<"U+A7B6">>, title |-> <<"U+A7B6">>],
      [c |-> "U+A7B8", lower |-> <<"U+A7B9">>, upper |-> <<"U+A7B8">>, title |-> <<"U+A7B8">>],
      [c |-> "U+A7B9", lower |-> <<"U+A7B9">>, upper |-> <<"U+A7B8">>, title |-> <<"U+A7B8">>],
      [c |-> "U+A7BA", lower |-> <<"U+A7BB">>, upper |-> <<"U+A7BA">>, title |-> <<"U+A7BA">>],
      [c |-> "U+A7BB", lower |-> <<"U+A7BB">>, upper |-> <<"U+A7BA">>, title |-> <<"U+A7BA">>],
      [c |-> "U+A7BC", lower |-> <<"U+A7BD">>, upper |-> <<"U+A7BC">>, title |-> <<"U+A7BC">>],
      [c |-> "U+A7BD", lower |-> <<"U+A7BD">>, upper |-> <<"U+A7BC">>, title |-> <<"U+A7BC">>],
      [c |-> "U+A7BE", lower |-> <<"U+A7BF">>, upper |-> <<"U+A7BE">>, title |-> <<"U+A7BE">>],
      [c |-> "U+A7BF", lower |-> <<"U+A7BF">>, upper |-> <<"U+A7BE">>, title |-> <<"U+A7BE">>],
      [c |-> "U+A7C0", lower |-> <<"U+A7C1">>, upper |-> <<"U+A7C0">>, title |-> <<"U+A7C0">>],
      [c |-> "U+A7C1", lower |-> <<"U+A7C1">>, upper |-> <<"U+A7C0">>, title |-> <<"U+A7C0">>],
      [c |-> "U+A7C2", lower |-> <<"U+A7C3">>, upper |-> <<"U+A7C2">>, title |-> <<"U+A7C2">>],
      [c |-> "U+A7C3", lower |-> <<"U+A7C3">>, upper |-> <<"U+A7C2">>, title |-> <<"U+A7C2">>],
      [c |-> "U+A7C4", lower |-> <<"U+A794">>, upper |-> <<"U+A7C4">>, title |-> <<"U+A7C4">>],
      [c |-> "U+A7C5", lower |-> <<"U+0282">>, upper |-> <<"U+A7C5">>, title |-> <<"U+A7C5">>],
      [c |-> "U+A7C6", lower |-> <<"U+1D8E">>, upper |-> <<"U+A7C6">>, title |-> <<"U+A7C6">>],
      [c |-> "U+A7C7", lower |-> <<"U+A7C8">>, upper |-> <<"U+A7C7">>, title |-> <<"U+A7C7">>],
      [c |-> "U+A7C8", lower |-> <<"U+A7C8">>, upper |-> <<"U+A7C7">>, title |-> <<"U+A7C7">>],
      [c |-> "U+A7C9", lower |-> <<"U+A7CA">>, upper |-> <<"U+A7C9">>, title |-> <<"U+A7C9">>],
      [c |-> "U+A7CA", lower |-> <<"U+A7CA">>, upper |-> <<"U+A7C9">>, title |-> <<"U+A7C9">>],
      [c |-> "U+A7D0", lower |-> <<"U+A7D1">>, upper |-> <<"U+A7D0">>, title |-> <<"U+A7D0">>],
      [c |-> "U+A7D1", lower |-> <<"U+A7D1">>, upper |-> <<"U+A7D0">>, title |-> <<"U+A7D0">>],
      [c |-> "U+A7D6", lower |-> <<"U+A7D7">>, upper |-> <<"U+A7D6">>, title |-> <<"U+A7D6">>],
      [c |-> "U+A7D7", lower |-> <<"U+A7D7">>, upper |-> <<"U+A7D6">>, title |-> <<"U+A7D6">>],
      [c |-> "U+A7D8", lower |-> <<"U+A7D9">>, upper |-> <<"U+A7D8">>, title |-> <<"U+A7D8">>],
      [c |-> "U+A7D9", lower |-> <<"U+A7D9">>, upper |-> <<"U+A7D8">>, title |-> <<"U+A7D8">>],
      [c |-> "U+A7F5", lower |-> <<"U+A7F6">>, upper |-> <<"U+A7F5">>, title |-> <<"U+A7F5">>],
      [c |-> "U+A7F6", lower |-> <<"U+A7F6">>, upper |-> <<"U+A7F5">>, title |-> <<"U+A7F5">>],
      [c |-> "U+AB53", lower |-> <<"U+AB53">>, upper |-> <<"U+A7B3">>, title |-> <<"U+A7B3">>],
      [c |-> "U+AB70", lower |-> <<"U+AB70">>, upper |-> <<"U+13A0">>, title |-> <<"U+13A0">>],
      [c |-> "U+AB71", lower |-> <<"U+AB71">>, upper |-> <<"U+13A1">>, title |-> <<"U+13A1">>],
      [c |-> "U+AB72", lower |-> <<"U+AB72">>, upper |-> <<"U+13A2">>, title |-> <<"U+13A2">>],
      [c |-> "U+AB73", lower |-> <<"U+AB73">>, upper |-> <<"U+13A3">>, title |-> <<"U+13A3">>],
      [c |-> "U+AB74", lower |-> <<"U+AB74">>, upper |-> <<"U+13A4">>, title |-> <<"U+13A4">>],
      [c |-> "U+AB75", lower |-> <<"U+AB75">>, upper |-> <<"U+13A5">>, title |-> <<"U+13A5">>],
      [c |-> "U+AB76", lower |-> <<"U+AB76">>, upper |-> <<"U+13A6">>, title |-> <<"U+13A6">>],
      [c |-> "U+AB77", lower |-> <<"U+AB77">>, upper |-> <<"U+13A7">>, title |-> <<"U+13A7">>],
      [c |-> "U+AB78", lower |-> <<"U+AB78">>, upper |-> <<"U+13A8">>, title |-> <<"U+13A8">>],
      [c |-> "U+AB79", lower |-> <<"U+AB79">>, upper |-> <<"U+13A9">>, title |-> <<"U+13A9">>],
      [c |-> "U+AB7A", lower |-> <<"U+AB7A">>, upper |-> <<"U+13AA">>, title |-> <<"U+13AA">>],
      [c |-> "U+AB7B", lower |-> <<"U+AB7B">>, upper |-> <<"U+13AB">>, title |-> <<"U+13AB">>],
      [c |-> "U+AB7C", lower |-> <<"U+AB7C">>, upper |-> <<"U+13AC">>, title |-> <<"U+13AC">>],
      [c |-> "U+AB7D", lower |-> <<"U+AB7D">>, upper |-> <<"U+13AD">>, title |-> <<"U+13AD">>],
      [c |-> "U+AB7E", lower |-> <<"U+AB7E">>, upper |-> <<"U+13AE">>, title |-> <<"U+13AE">>],
      [c |-> "U+AB7F", lower |-> <<"U+AB7F">>, upper |-> <<"U+13AF">>, title |-> <<"U+13AF">>],
      [c |-> "U+AB80", lower |-> <<"U+AB80">>, upper |-> <<"U+13B0">>, title |-> <<"U+13B0">>],
      [c |-> "U+AB81", lower |-> <<"U+AB81">>, upper |-> <<"U+13B1">>, title |-> <<"U+13B1">>],
      [c |-> "U+AB82", lower |-> <<"U+AB82">>, upper |-> <<"U+13B2">>, title |-> <<"U+13B2">>],
      [c |-> "U+AB83", lower |-> <<"U+AB83">>, upper |-> <<"U+13B3">>, title |-> <<"U+13B3">>],
      [c |-> "U+AB84", lower |-> <<"U+AB84">>, upper |-> <<"U+13B4">>, title |-> <<"U+13B4">>],
      [c |-> "U+AB85", lower |-> <<"U+AB85">>, upper |-> <<"U+13B5">>, title |-> <<"U+13B5">>],
      [c |-> "U+AB86", lower |-> <<"U+AB86">>, upper |-> <<"U+13B6">>, title |-> <<"U+13B6">>],
      [c |-> "U+AB87", lower |-> <<"U+AB87">>, upper |-> <<"U+13B7">>, title |-> <<"U+13B7">>],
      [c |-> "U+AB88", lower |-> <<"U+AB88">>, upper |-> <<"U+13B8">>, title |-> <<"U+13B8">>],
      [c |-> "U+AB89", lower |-> <<"U+AB89">>, upper |-> <<"U+13B9">>, title |-> <<"U+13B9">>],
      [c |-> "U+AB8A", lower |-> <<"U+AB8A">>, upper |-> <<"U+13BA">>, title |-> <<"U+13BA">>],
      [c |-> "U+AB8B", lower |-> <<"U+AB8B">>, upper |-> <<"U+13BB">>, title |-> <<"U+13BB">>],
      [c |-> "U+AB8C", lower |-> <<"U+AB8C">>, upper |-> <<"U+13BC">>, title |-> <<"U+13BC">>],
      [c |-> "U+AB8D", lower |-> <<"U+AB8D">>, upper |-> <<"U+13BD">>, title |-> <<"U+13BD">>],
      [c |-> "U+AB8E", lower |-> <<"U+AB8E">>, upper |-> <<"U+13BE">>, title |-> <<"U+13BE">>],
      [c |-> "U+AB8F", lower |-> <<"U+AB8F">>, upper |-> <<"U+13BF">>, title |-> <<"U+13BF">>],
      [c |-> "U+AB90", lower |-> <<"U+AB90">>, upper |-> <<"U+13C0">>, title |-> <<"U+13C0">>],
      [c |-> "U+AB91", lower |-> <<"U+AB91">>, upper |-> <<"U+13C1">>, title |-> <<"U+13C1">>],
      [c |-> "U+AB92", lower |-> <<"U+AB92">>, upper |-> <<"U+13C2">>, title |-> <<"U+13C2">>],
      [c |-> "U+AB93", lower |-> <<"U+AB93">>, upper |-> <<"U+13C3">>, title |-> <<"U+13C3">>],
      [c |-> "U+AB94", lower |-> <<"U+AB94">>, upper |-> <<"U+13C4">>, title |-> <<"U+13C4">>],
      [c |-> "U+AB95", lower |-> <<"U+AB95">>, upper |-> <<"U+13C5">>, title |-> <<"U+13C5">>],
      [c |-> "U+AB96", lower |-> <<"U+AB96">>, upper |-> <<"U+13C6">>, title |-> <<"U+13C6">>],
      [c |-> "U+AB97", lower |-> <<"U+AB97">>, upper |-> <<"U+13C7">>, title |-> <<"U+13C7">>],
      [c |-> "U+AB98", lower |-> <<"U+AB98">>, upper |-> <<"U+13C8">>, title |-> <<"U+13C8">>],
      [c |-> "U+AB99", lower |-> <<"U+AB99">>, upper |-> <<"U+13C9">>, title |-> <<"U+13C9">>],
      [c |-> "U+AB9A", lower |-> <<"U+AB9A">>, upper |-> <<"U+13CA">>, title |-> <<"U+13CA">>],
      [c |-> "U+AB9B", lower |-> <<"U+AB9B">>, upper |-> <<"U+13CB">>, title |-> <<"U+13CB">>],
      [c |-> "U+AB9C", lower |-> <<"U+AB9C">>, upper |-> <<"U+13CC">>, title |-> <<"U+13CC">>],
      [c |-> "U+AB9D", lower |-> <<"U+AB9D">>, upper |-> <<"U+13CD">>, title |-> <<"U+13CD">>],
      [c |-> "U+AB9E", lower |-> <<"U+AB9E">>, upper |-> <<"U+13CE">>, title |-> <<"U+13CE">>],
      [c |-> "U+AB9F", lower |-> <<"U+AB9F">>, upper |-> <<"U+13CF">>, title |-> <<"U+13CF">>],
      [c |-> "U+ABA0", lower |-> <<"U+ABA0">>, upper |-> <<"U+13D0">>, title |-> <<"U+13D0">>],
      [c |-> "U+ABA1", lower |-> <<"U+ABA1">>, upper |-> <<"U+13D1">>, title |-> <<"U+13D1">>],
      [c |-> "U+ABA2", lower |-> <<"U+ABA2">>, upper |-> <<"U+13D2">>, title |-> <<"U+13D2">>],
      [c |-> "U+ABA3", lower |-> <<"U+ABA3">>, upper |-> <<"U+13D3">>, title |-> <<"U+13D3">>],
      [c |-> "U+ABA4", lower |-> <<"U+ABA4">>, upper |-> <<"U+13D4">>, title |-> <<"U+13D4">>],
      [c |-> "U+ABA5", lower |-> <<"U+ABA5">>, upper |-> <<"U+13D5">>, title |-> <<"U+13D5">>],
      [c |-> "U+ABA6", lower |-> <<"U+ABA6">>, upper |-> <<"U+13D6">>, title |-> <<"U+13D6">>],
      [c |-> "U+ABA7", lower |-> <<"U+ABA7">>, upper |-> <<"U+13D7">>, title |-> <<"U+13D7">>],
      [c |-> "U+ABA8", lower |-> <<"U+ABA8">>, upper |-> <<"U+13D8">>, title |-> <<"U+13D8">>],
      [c |-> "U+ABA9", lower |-> <<"U+ABA9">>, upper |-> <<"U+13D9">>, title |-> <<"U+13D9">>],
      [c |-> "U+ABAA", lower |-> <<"U+ABAA">>, upper |-> <<"U+13DA">>, title |-> <<"U+13DA">>],
      [c |-> "U+ABAB", lower |-> <<"U+ABAB">>, upper |-> <<"U+13DB">>, title |-> <<"U+13DB">>],
      [c |-> "U+ABAC", lower |-> <<"U+ABAC">>, upper |-> <<"U+13DC">>, title |-> <<"U+13DC">>],
      [c |-> "U+ABAD", lower |-> <<"U+ABAD">>, upper |-> <<"U+13DD">>, title |-> <<"U+13DD">>],
      [c |-> "U+ABAE", lower |-> <<"U+ABAE">>, upper |-> <<"U+13DE">>, title |-> <<"U+13DE">>],
      [c |-> "U+ABAF", lower |-> <<"U+ABAF">>, upper |-> <<"U+13DF">>, title |-> <<"U+13DF">>],
      [c |-> "U+ABB0", lower |-> <<"U+ABB0">>, upper |-> <<"U+13E0">>, title |-> <<"U+13E0">>],
      [c |-> "U+ABB1", lower |-> <<"U+ABB1">>, upper |-> <<"U+13E1">>, title |-> <<"U+13E1">>],
      [c |-> "U+ABB2", lower |-> <<"U+ABB2">>, upper |-> <<"U+13E2">>, title |-> <<"U+13E2">>],
      [c |-> "U+ABB3", lower |-> <<"U+ABB3">>, upper |-> <<"U+13E3">>, title |-> <<"U+13E3">>],
      [c |-> "U+ABB4", lower |-> <<"U+ABB4">>, upper |-> <<"U+13E4">>, title |-> <<"U+13E4">>],
      [c |-> "U+ABB5", lower |-> <<"U+ABB5">>, upper |-> <<"U+13E5">>, title |-> <<"U+13E5">>],
      [c |-> "U+ABB6", lower |-> <<"U+ABB6">>, upper |-> <<"U+13E6">>, title |-> <<"U+13E6">>],
      [c |-> "U+ABB7", lower |-> <<"U+ABB7">>, upper |-> <<"U+13E7">>, title |-> <<"U+13E7">>],
      [c |-> "U+ABB8", lower |-> <<"U+ABB8">>, upper |-> <<"U+13E8">>, title |-> <<"U+13E8">>],
      [c |-> "U+ABB9", lower |-> <<"U+ABB9">>, upper |-> <<"U+13E9">>, title |-> <<"U+13E9">>],
      [c |-> "U+ABBA", lower |-> <<"U+ABBA">>, upper |-> <<"U+13EA">>, title |-> <<"U+13EA">>],
      [c |-> "U+ABBB", lower |-> <<"U+ABBB">>, upper |-> <<"U+13EB">>, title |-> <<"U+13EB">>],
      [c |-> "U+ABBC", lower |-> <<"U+ABBC">>, upper |-> <<"U+13EC">>, title |-> <<"U+13EC">>],
      [c |-> "U+ABBD", lower |-> <<"U+ABBD">>, upper |-> <<"U+13ED">>, title |-> <<"U+13ED">>],
      [c |-> "U+ABBE", lower |-> <<"U+ABBE">>, upper |-> <<"U+13EE">>, title |-> <<"U+13EE">>],
      [c |-> "U+ABBF", lower |-> <<"U+ABBF">>, upper |-> <<"U+13EF">>, title |-> <<"U+13EF">>],
      [c |-> "U+FB00", lower |-> <<"U+FB00">>, upper |-> <<"F","F">>, title |-> <<"F","f">>],
      [c |-> "U+FB01", lower |-> <<"U+FB01">>, upper |-> <<"F","I">>, title |-> <<"F","i">>],
      [c |-> "U+FB02", lower |-> <<"U+FB02">>, upper |-> <<"F","L">>, title |-> <<"F","l">>],
      [c |-> "U+FB03", lower |-> <<"U+FB03">>, upper |-> <<"F","F","I">>, title |-> <<"F","f","i">>],
      [c |-> "U+FB04", lower |-> <<"U+FB04">>, upper |-> <<"F","F","L">>, title |-> <<"F","f","l">>],
      [c |-> "U+FB05", lower |-> <<"U+FB05">>, upper |-> <<"S","T">>, title |-> <<"S","t">>],
      [c |-> "U+FB06", lower |-> <<"U+FB06">>, upper |-> <<"S","T">>, title |-> <<"S","t">>],
      [c |-> "U+FB13", lower |-> <<"U+FB13">>, upper |-> <<"U+0544","U+0546">>, title |-> <<"U+0544","U+0576">>],
      [c |-> "U+FB14", lower |-> <<"U+FB14">>, upper |-> <<"U+0544","U+0535">>, title |-> <<"U+0544","U+0565">>],
      [c |-> "U+FB15", lower |-> <<"U+FB15">>, upper |-> <<"U+0544","U+053B">>, title |-> <<"U+0544","U+056B">>],
      [c |-> "U+FB16", lower |-> <<"U+FB16">>, upper |-> <<"U+054E","U+0546">>, title |-> <<"U+054E","U+0576">>],
      [c |-> "U+FB17", lower |-> <<"U+FB17">>, upper |-> <<"U+0544","U+053D">>, title |-> <<"U+0544","U+056D">>],
      [c |-> "U+FF21", lower |-> <<"U+FF41">>, upper |-> <<"U+FF21">>, title |-> <<"U+FF21">>],
      [c |-> "U+FF22", lower |-> <<"U+FF42">>, upper |-> <<"U+FF22">>, title |-> <<"U+FF22">>],
      [c |-> "U+FF23", lower |-> <<"U+FF43">>, upper |-> <<"U+FF23">>, title |-> <<"U+FF23">>],
      [c |-> "U+FF24", lower |-> <<"U+FF44">>, upper |-> <<"U+FF24">>, title |-> <<"U+FF24">>],
      [c |-> "U+FF25", lower |-> <<"U+FF45">>, upper |-> <<"U+FF25">>, title |-> <<"U+FF25">>],
      [c |-> "U+FF26", lower |-> <<"U+FF46">>, upper |-> <<"U+FF26">>, title |-> <<"U+FF26">>],
      [c |-> "U+FF27", lower |-> <<"U+FF47">>, upper |-> <<"U+FF27">>, title |-> <<"U+FF27">>],
      [c |-> "U+FF28", lower |-> <<"U+FF48">>, upper |-> <<"U+FF28">>, title |-> <<"U+FF28">>],
      [c |-> "U+FF29", lower |-> <<"U+FF49">>, upper |-> <<"U+FF29">>, title |-> <<"U+FF29">>],
      [c |-> "U+FF2A", lower |-> <<"U+FF4A">>, upper |-> <<"U+FF2A">>, title |-> <<"U+FF2A">>],
      [c |-> "U+FF2B", lower |-> <<"U+FF4B">>, upper |-> <<"U+FF2B">>, title |-> <<"U+FF2B">>],
      [c |-> "U+FF2C", lower |-> <<"U+FF4C">>, upper |-> <<"U+FF2C">>, title |-> <<"U+FF2C">>],
      [c |-> "U+FF2D", lower |-> <<"U+FF4D">>, upper |-> <<"U+FF2D">>, title |-> <<"U+FF2D">>],
      [c |-> "U+FF2E", lower |-> <<"U+FF4E">>, upper |-> <<"U+FF2E">>, title |-> <<"U+FF2E">>],
      [c |-> "U+FF2F", lower |-> <<"U+FF4F">>, upper |-> <<"U+FF2F">>, title |-> <<"U+FF2F">>],
      [c |-> "U+FF30", lower |-> <<"U+FF50">>, upper |-> <<"U+FF30">>, title |-> <<"U+FF30">>],
      [c |-> "U+FF31", lower |-> <<"U+FF51">>, upper |-> <<"U+FF31">>, title |-> <<"U+FF31">>],
      [c |-> "U+FF32", lower |-> <<"U+FF52">>, upper |-> <<"U+FF32">>, title |-> <<"U+FF32">>],
      [c |-> "U+FF33", lower |-> <<"U+FF53">>, upper |-> <<"U+FF33">>, title |-> <<"U+FF33">>],
      [c |-> "U+FF34", lower |-> <<"U+FF54">>, upper |-> <<"U+FF34">>, title |-> <<"U+FF34">>],
      [c |-> "U+FF35", lower |-> <<"U+FF55">>, upper |-> <<"U+FF35">>, title |-> <<"U+FF35">>],
      [c |-> "U+FF36", lower |-> <<"U+FF56">>, upper |-> <<"U+FF36">>, title |-> <<"U+FF36">>],
      [c |-> "U+FF37", lower |-> <<"U+FF57">>, upper |-> <<"U+FF37">>, title |-> <<"U+FF37">>],
      [c |-> "U+FF38", lower |-> <<"U+FF58">>, upper |-> <<"U+FF38">>, title |-> <<"U+FF38">>],
      [c |-> "U+FF39", lower |-> <<"U+FF59">>, upper |-> <<"U+FF39">>, title |-> <<"U+FF39">>],
      [c |-> "U+FF3A", lower |-> <<"U+FF5A">>, upper |-> <<"U+FF3A">>, title |-> <<"U+FF3A">>],
      [c |-> "U+FF41", lower |-> <<"U+FF41">>, upper |-> <<"U+FF21">>, title |-> <<"U+FF21">>],
      [c |-> "U+FF42", lower |-> <<"U+FF42">>, upper |-> <<"U+FF22">>, title |-> <<"U+FF22">>],
      [c |-> "U+FF43", lower |-> <<"U+FF43">>, upper |-> <<"U+FF23">>, title |-> <<"U+FF23">>],
      [c |-> "U+FF44", lower |-> <<"U+FF44">>, upper |-> <<"U+FF24">>, title |-> <<"U+FF24">>],
      [c |-> "U+FF45", lower |-> <<"U+FF45">>, upper |-> <<"U+FF25">>, title |-> <<"U+FF25">>],
      [c |-> "U+FF46", lower |-> <<"U+FF46">>, upper |-> <<"U+FF26">>, title |-> <<"U+FF26">>],
      [c |-> "U+FF47", lower |-> <<"U+FF47">>, upper |-> <<"U+FF27">>, title |-> <<"U+FF27">>],
      [c |-> "U+FF48", lower |-> <<"U+FF48">>, upper |-> <<"U+FF28">>, title |-> <<"U+FF28">>],
      [c |-> "U+FF49", lower |-> <<"U+FF49">>, upper |-> <<"U+FF29">>, title |-> <<"U+FF29">>],
      [c |-> "U+FF4A", lower |-> <<"U+FF4A">>, upper |-> <<"U+FF2A">>, title |-> <<"U+FF2A">>],
      [c |-> "U+FF4B", lower |-> <<"U+FF4B">>, upper |-> <<"U+FF2B">>, title |-> <<"U+FF2B">>],
      [c |-> "U+FF4C", lower |-> <<"U+FF4C">>, upper |-> <<"U+FF2C">>, title |-> <<"U+FF2C">>],
      [c |-> "U+FF4D", lower |-> <<"U+FF4D">>, upper |-> <<"U+FF2D">>, title |-> <<"U+FF2D">>],
      [c |-> "U+FF4E", lower |-> <<"U+FF4E">>, upper |-> <<"U+FF2E">>, title |-> <<"U+FF2E">>],
      [c |-> "U+FF4F", lower |-> <<"U+FF4F">>, upper |-> <<"U+FF2F">>, title |-> <<"U+FF2F">>],
      [c |-> "U+FF50", lower |-> <<"U+FF50">>, upper |-> <<"U+FF30">>, title |-> <<"U+FF30">>],
      [c |-> "U+FF51", lower |-> <<"U+FF51">>, upper |-> <<"U+FF31">>, title |-> <<"U+FF31">>],
      [c |-> "U+FF52", lower |-> <<"U+FF52">>, upper |-> <<"U+FF32">>, title |-> <<"U+FF32">>],
      [c |-> "U+FF53", lower |-> <<"U+FF53">>, upper |-> <<"U+FF33">>, title |-> <<"U+FF33">>],
      [c |-> "U+FF54", lower |-> <<"U+FF54">>, upper |-> <<"U+FF34">>, title |-> <<"U+FF34">>],
      [c |-> "U+FF55", lower |-> <<"U+FF55">>, upper |-> <<"U+FF35">>, title |-> <<"U+FF35">>],
      [c |-> "U+FF56", lower |-> <<"U+FF56">>, upper |-> <<"U+FF36">>, title |-> <<"U+FF36">>],
      [c |-> "U+FF57", lower |-> <<"U+FF57">>, upper |-> <<"U+FF37">>, title |-> <<"U+FF37">>],
      [c |-> "U+FF58", lower |-> <<"U+FF58">>, upper |-> <<"U+FF38">>, title |-> <<"U+FF38">>],
      [c |-> "U+FF59", lower |-> <<"U+FF59">>, upper |-> <<"U+FF39">>, title |-> <<"U+FF39">>],
      [c |-> "U+FF5A", lower |-> <<"U+FF5A">>, upper |-> <<"U+FF3A">>, title |-> <<"U+FF3A">>],
      [c |-> "U+10400", lower |-> <<"U+10428">>, upper |-> <<"U+10400">>, title |-> <<"U+10400">>],
      [c |-> "U+10401", lower |-> <<"U+10429">>, upper |-> <<"U+10401">>, title |-> <<"U+10401">>],
      [c |-> "U+10402", lower |-> <<"U+1042A">>, upper |-> <<"U+10402">>, title |-> <<"U+10402">>],
      [c |-> "U+10403", lower |-> <<"U+1042B">>, upper |-> <<"U+10403">>, title |-> <<"U+10403">>],
      [c |-> "U+10404", lower |-> <<"U+1042C">>, upper |-> <<"U+10404">>, title |-> <<"U+10404">>],
      [c |-> "U+10405", lower |-> <<"U+1042D">>, upper |-> <<"U+10405">>, title |-> <<"U+10405">>],
      [c |-> "U+10406", lower |-> <<"U+1042E">>, upper |-> <<"U+10406">>, title |-> <<"U+10406">>],
      [c |-> "U+10407", lower |-> <<"U+1042F">>, upper |-> <<"U+10407">>, title |-> <<"U+10407">>],
      [c |-> "U+10408", lower |-> <<"U+10430">>, upper |-> <<"U+10408">>, title |-> <<"U+10408">>],
      [c |-> "U+10409", lower |-> <<"U+10431">>, upper |-> <<"U+10409">>, title |-> <<"U+10409">>],
      [c |-> "U+1040A", lower |-> <<"U+10432">>, upper |-> <<"U+1040A">>, title |-> <<"U+1040A">>],
      [c |-> "U+1040B", lower |-> <<"U+10433">>, upper |-> <<"U+1040B">>, title |-> <<"U+1040B">>],
      [c |-> "U+1040C", lower |-> <<"U+10434">>, upper |-> <<"U+1040C">>, title |-> <<"U+1040C">>],
      [c |-> "U+1040D", lower |-> <<"U+10435">>, upper |-> <<"U+1040D">>, title |-> <<"U+1040D">>],
      [c |-> "U+1040E", lower |-> <<"U+10436">>, upper |-> <<"U+1040E">>, title |-> <<"U+1040E">>],
      [c |-> "U+1040F", lower |-> <<"U+10437">>, upper |-> <<"U+1040F">>, title |-> <<"U+1040F">>],
      [c |-> "U+10410", lower |-> <<"U+10438">>, upper |-> <<"U+10410">>, title |-> <<"U+10410">>],
      [c |-> "U+10411", lower |-> <<"U+10439">>, upper |-> <<"U+10411">>, title |-> <<"U+10411">>],
      [c |-> "U+10412", lower |-> <<"U+1043A">>, upper |-> <<"U+10412">>, title |-> <<"U+10412">>],
      [c |-> "U+10413", lower |-> <<"U+1043B">>, upper |-> <<"U+10413">>, title |-> <<"U+10413">>],
      [c |-> "U+10414", lower |-> <<"U+1043C">>, upper |-> <<"U+10414">>, title |-> <<"U+10414">>],
      [c |-> "U+10415", lower |-> <<"U+1043D">>, upper |-> <<"U+10415">>, title |-> <<"U+10415">>],
      [c |-> "U+10416", lower |-> <<"U+1043E">>, upper |-> <<"U+10416">>, title |-> <<"U+10416">>],
      [c |-> "U+10417", lower |-> <<"U+1043F">>, upper |-> <<"U+10417">>, title |-> <<"U+10417">>],
      [c |-> "U+10418", lower |-> <<"U+10440">>, upper |-> <<"U+10418">>, title |-> <<"U+10418">>],
      [c |-> "U+10419", lower |-> <<"U+10441">>, upper |-> <<"U+10419">>, title |-> <<"U+10419">>],
      [c |-> "U+1041A", lower |-> <<"U+10442">>, upper |-> <<"U+1041A">>, title |-> <<"U+1041A">>],
      [c |-> "U+1041B", lower |-> <<"U+10443">>, upper |-> <<"U+1041B">>, title |-> <<"U+1041B">>],
      [c |-> "U+1041C", lower |-> <<"U+10444">>, upper |-> <<"U+1041C">>, title |-> <<"U+1041C">>],
      [c |-> "U+1041D", lower |-> <<"U+10445">>, upper |-> <<"U+1041D">>, title |-> <<"U+1041D">>],
      [c |-> "U+1041E", lower |-> <<"U+10446">>, upper |-> <<"U+1041E">>, title |-> <<"U+1041E">>],
      [c |-> "U+1041F", lower |-> <<"U+10447">>, upper |-> <<"U+1041F">>, title |-> <<"U+1041F">>],
      [c |-> "U+10420", lower |-> <<"U+10448">>, upper |-> <<"U+10420">>, title |-> <<"U+10420">>],
      [c |-> "U+10421", lower |-> <<"U+10449">>, upper |-> <<"U+10421">>, title |-> <<"U+10421">>],
      [c |-> "U+10422", lower |-> <<"U+1044A">>, upper |-> <<"U+10422">>, title |-> <<"U+10422">>],
      [c |-> "U+10423", lower |-> <<"U+1044B">>, upper |-> <<"U+10423">>, title |-> <<"U+10423">>],
      [c |-> "U+10424", lower |-> <<"U+1044C">>, upper |-> <<"U+10424">>, title |-> <<"U+10424">>],
      [c |-> "U+10425", lower |-> <<"U+1044D">>, upper |-> <<"U+10425">>, title |-> <<"U+10425">>],
      [c |-> "U+10426", lower |-> <<"U+1044E">>, upper |-> <<"U+10426">>, title |-> <<"U+10426">>],
      [c |-> "U+10427", lower |-> <<"U+1044F">>, upper |-> <<"U+10427">>, title |-> <<"U+10427">>],
      [c |-> "U+10428", lower |-> <<"U+10428">>, upper |-> <<"U+10400">>, title |-> <<"U+10400">>],
      [c |-> "U+10429", lower |-> <<"U+10429">>, upper |-> <<"U+10401">>, title |-> <<"U+10401">>],
      [c |-> "U+1042A", lower |-> <<"U+1042A">>, upper |-> <<"U+10402">>, title |-> <<"U+10402">>],
      [c |-> "U+1042B", lower |-> <<"U+1042B">>, upper |-> <<"U+10403">>, title |-> <<"U+10403">>],
      [c |-> "U+1042C", lower |-> <<"U+1042C">>, upper |-> <<"U+10404">>, title |-> <<"U+10404">>],
      [c |-> "U+1042D", lower |-> <<"U+1042D">>, upper |-> <<"U+10405">>, title |-> <<"U+10405">>],
      [c |-> "U+1042E", lower |-> <<"U+1042E">>, upper |-> <<"U+10406">>, title |-> <<"U+10406">>],
      [c |-> "U+1042F", lower |-> <<"U+1042F">>, upper |-> <<"U+10407">>, title |-> <<"U+10407">>],
      [c |-> "U+10430", lower |-> <<"U+10430">>, upper |-> <<"U+10408">>, title |-> <<"U+10408">>],
      [c |-> "U+10431", lower |-> <<"U+10431">>, upper |-> <<"U+10409">>, title |-> <<"U+10409">>],
      [c |-> "U+10432", lower |-> <<"U+10432">>, upper |-> <<"U+1040A">>, title |-> <<"U+1040A">>],
      [c |-> "U+10433", lower |-> <<"U+10433">>, upper |-> <<"U+1040B">>, title |-> <<"U+1040B">>],
      [c |-> "U+10434", lower |-> <<"U+10434">>, upper |-> <<"U+1040C">>, title |-> <<"U+1040C">>],
      [c |-> "U+10435", lower |-> <<"U+10435">>, upper |-> <<"U+1040D">>, title |-> <<"U+1040D">>],
      [c |-> "U+10436", lower |-> <<"U+10436">>, upper |-> <<"U+1040E">>, title |-> <<"U+1040E">>],
      [c |-> "U+10437", lower |-> <<"U+10437">>, upper |-> <<"U+1040F">>, title |-> <<"U+1040F">>],
      [c |-> "U+10438", lower |-> <<"U+10438">>, upper |-> <<"U+10410">>, title |-> <<"U+10410">>],
      [c |-> "U+10439", lower |-> <<"U+10439">>, upper |-> <<"U+10411">>, title |-> <<"U+10411">>],
      [c |-> "U+1043A", lower |-> <<"U+1043A">>, upper |-> <<"U+10412">>, title |-> <<"U+10412">>],
      [c |-> "U+1043B", lower |-> <<"U+1043B">>, upper |-> <<"U+10413">>, title |-> <<"U+10413">>],
      [c |-> "U+1043C", lower |-> <<"U+1043C">>, upper |-> <<"U+10414">>, title |-> <<"U+10414">>],
      [c |-> "U+1043D", lower |-> <<"U+1043D">>, upper |-> <<"U+10415">>, title |-> <<"U+10415">>],
      [c |-> "U+1043E", lower |-> <<"U+1043E">>, upper |-> <<"U+10416">>, title |-> <<"U+10416">>],
      [c |-> "U+1043F", lower |-> <<"U+1043F">>, upper |-> <<"U+10417">>, title |-> <<"U+10417">>],
      [c |-> "U+10440", lower |-> <<"U+10440">>, upper |-> <<"U+10418">>, title |-> <<"U+10418">>],
      [c |-> "U+10441", lower |-> <<"U+10441">>, upper |-> <<"U+10419">>, title |-> <<"U+10419">>],
      [c |-> "U+10442", lower |-> <<"U+10442">>, upper |-> <<"U+1041A">>, title |-> <<"U+1041A">>],
      [c |-> "U+10443", lower |-> <<"U+10443">>, upper |-> <<"U+1041B">>, title |-> <<"U+1041B">>],
      [c |-> "U+10444", lower |-> <<"U+10444">>, upper |-> <<"U+1041C">>, title |-> <<"U+1041C">>],
      [c |-> "U+10445", lower |-> <<"U+10445">>, upper |-> <<"U+1041D">>, title |-> <<"U+1041D">>],
      [c |-> "U+10446", lower |-> <<"U+10446">>, upper |-> <<"U+1041E">>, title |-> <<"U+1041E">>],
      [c |-> "U+10447", lower |-> <<"U+10447">>, upper |-> <<"U+1041F">>, title |-> <<"U+1041F">>],
      [c |-> "U+10448", lower |-> <<"U+10448">>, upper |-> <<"U+10420">>, title |-> <<"U+10420">>],
      [c |-> "U+10449", lower |-> <<"U+10449">>, upper |-> <<"U+10421">>, title |-> <<"U+10421">>],
      [c |-> "U+1044A", lower |-> <<"U+1044A">>, upper |-> <<"U+10422">>, title |-> <<"U+10422">>],
      [c |-> "U+1044B", lower |-> <<"U+1044B">>, upper |-> <<"U+10423">>, title |-> <<"U+10423">>],
      [c |-> "U+1044C", lower |-> <<"U+1044C">>, upper |-> <<"U+10424">>, title |-> <<"U+10424">>],
      [c |-> "U+1044D", lower |-> <<"U+1044D">>, upper |-> <<"U+10425">>, title |-> <<"U+10425">>],
      [c |-> "U+1044E", lower |-> <<"U+1044E">>, upper |-> <<"U+10426">>, title |-> <<"U+10426">>],
      [c |-> "U+1044F", lower |-> <<"U+1044F">>, upper |-> <<"U+10427">>, title |-> <<"U+10427">>],
      [c |-> "U+104B0", lower |-> <<"U+104D8">>, upper |-> <<"U+104B0">>, title |-> <<"U+104B0">>],
      [c |-> "U+104B1", lower |-> <<"U+104D9">>, upper |-> <<"U+104B1">>, title |-> <<"U+104B1">>],
      [c |-> "U+104B2", lower |-> <<"U+104DA">>, upper |-> <<"U+104B2">>, title |-> <<"U+104B2">>],
      [c |-> "U+104B3", lower |-> <<"U+104DB">>, upper |-> <<"U+104B3">>, title |-> <<"U+104B3">>],
      [c |-> "U+104B4", lower |-> <<"U+104DC">>, upper |-> <<"U+104B4">>, title |-> <<"U+104B4">>],
      [c |-> "U+104B5", lower |-> <<"U+104DD">>, upper |-> <<"U+104B5">>, title |-> <<"U+104B5">>],
      [c |-> "U+104B6", lower |-> <<"U+104DE">>, upper |-> <<"U+104B6">>, title |-> <<"U+104B6">>],
      [c |-> "U+104B7", lower |-> <<"U+104DF">>, upper |-> <<"U+104B7">>, title |-> <<"U+104B7">>],
      [c |-> "U+104B8", lower |-> <<"U+104E0">>, upper |-> <<"U+104B8">>, title |-> <<"U+104B8">>],
      [c |-> "U+104B9", lower |-> <<"U+104E1">>, upper |-> <<"U+104B9">>, title |-> <<"U+104B9">>],
      [c |-> "U+104BA", lower |-> <<"U+104E2">>, upper |-> <<"U+104BA">>, title |-> <<"U+104BA">>],
      [c |-> "U+104BB", lower |-> <<"U+104E3">>, upper |-> <<"U+104BB">>, title |-> <<"U+104BB">>],
      [c |-> "U+104BC", lower |-> <<"U+104E4">>, upper |-> <<"U+104BC">>, title |-> <<"U+104BC">>],
      [c |-> "U+104BD", lower |-> <<"U+104E5">>, upper |-> <<"U+104BD">>, title |-> <<"U+104BD">>],
      [c |-> "U+104BE", lower |-> <<"U+104E6">>, upper |-> <<"U+104BE">>, title |-> <<"U+104BE">>],
      [c |-> "U+104BF", lower |-> <<"U+104E7">>, upper |-> <<"U+104BF">>, title |-> <<"U+104BF">>],
      [c |-> "U+104C0", lower |-> <<"U+104E8">>, upper |-> <<"U+104C0">>, title |-> <<"U+104C0">>],
      [c |-> "U+104C1", lower |-> <<"U+104E9">>, upper |-> <<"U+104C1">>, title |-> <<"U+104C1">>],
      [c |-> "U+104C2", lower |-> <<"U+104EA">>, upper |-> <<"U+104C2">>, title |-> <<"U+104C2">>],
      [c |-> "U+104C3", lower |-> <<"U+104EB">>, upper |-> <<"U+104C3">>, title |-> <<"U+104C3">>],
      [c |-> "U+104C4", lower |-> <<"U+104EC">>, upper |-> <<"U+104C4">>, title |-> <<"U+104C4">>],
      [c |-> "U+104C5", lower |-> <<"U+104ED">>, upper |-> <<"U+104C5">>, title |-> <<"U+104C5">>],
      [c |-> "U+104C6", lower |-> <<"U+104EE">>, upper |-> <<"U+104C6">>, title |-> <<"U+104C6">>],
      [c |-> "U+104C7", lower |-> <<"U+104EF">>, upper |-> <<"U+104C7">>, title |-> <<"U+104C7">>],
      [c |-> "U+104C8", lower |-> <<"U+104F0">>, upper |-> <<"U+104C8">>, title |-> <<"U+104C8">>],
      [c |-> "U+104C9", lower |-> <<"U+104F1">>, upper |-> <<"U+104C9">>, title |-> <<"U+104C9">>],
      [c |-> "U+104CA", lower |-> <<"U+104F2">>, upper |-> <<"U+104CA">>, title |-> <<"U+104CA">>],
      [c |-> "U+104CB", lower |-> <<"U+104F3">>, upper |-> <<"U+104CB">>, title |-> <<"U+104CB">>],
      [c |-> "U+104CC", lower |-> <<"U+104F4">>, upper |-> <<"U+104CC">>, title |-> <<"U+104CC">>],
      [c |-> "U+104CD", lower |-> <<"U+104F5">>, upper |-> <<"U+104CD">>, title |-> <<"U+104CD">>],
      [c |-> "U+104CE", lower |-> <<"U+104F6">>, upper |-> <<"U+104CE">>, title |-> <<"U+104CE">>],
      [c |-> "U+104CF", lower |-> <<"U+104F7">>, upper |-> <<"U+104CF">>, title |-> <<"U+104CF">>],
      [c |-> "U+104D0", lower |-> <<"U+104F8">>, upper |-> <<"U+104D0">>, title |-> <<"U+104D0">>],
      [c |-> "U+104D1", lower |-> <<"U+104F9">>, upper |-> <<"U+104D1">>, title |-> <<"U+104D1">>],
      [c |-> "U+104D2", lower |-> <<"U+104FA">>, upper |-> <<"U+104D2">>, title |-> <<"U+104D2">>],
      [c |-> "U+104D3", lower |-> <<"U+104FB">>, upper |-> <<"U+104D3">>, title |-> <<"U+104D3">>],
      [c |-> "U+104D8", lower |-> <<"U+104D8">>, upper |-> <<"U+104B0">>, title |-> <<"U+104B0">>],
      [c |-> "U+104D9", lower |-> <<"U+104D9">>, upper |-> <<"U+104B1">>, title |-> <<"U+104B1">>],
      [c |-> "U+104DA", lower |-> <<"U+104DA">>, upper |-> <<"U+104B2">>, title |-> <<"U+104B2">>],
      [c |-> "U+104DB", lower |-> <<"U+104DB">>, upper |-> <<"U+104B3">>, title |-> <<"U+104B3">>],
      [c |-> "U+104DC", lower |-> <<"U+104DC">>, upper |-> <<"U+104B4">>, title |-> <<"U+104B4">>],
      [c |-> "U+104DD", lower |-> <<"U+104DD">>, upper |-> <<"U+104B5">>, title |-> <<"U+104B5">>],
      [c |-> "U+104DE", lower |-> <<"U+104DE">>, upper |-> <<"U+104B6">>, title |-> <<"U+104B6">>],
      [c |-> "U+104DF", lower |-> <<"U+104DF">>, upper |-> <<"U+104B7">>, title |-> <<"U+104B7">>],
      [c |-> "U+104E0", lower |-> <<"U+104E0">>, upper |-> <<"U+104B8">>, title |-> <<"U+104B8">>],
      [c |-> "U+104E1", lower |-> <<"U+104E1">>, upper |-> <<"U+104B9">>, title |-> <<"U+104B9">>],
      [c |-> "U+104E2", lower |-> <<"U+104E2">>, upper |-> <<"U+104BA">>, title |-> <<"U+104BA">>],
      [c |-> "U+104E3", lower |-> <<"U+104E3">>, upper |-> <<"U+104BB">>, title |-> <<"U+104BB">>],
      [c |-> "U+104E4", lower |-> <<"U+104E4">>, upper |-> <<"U+104BC">>, title |-> <<"U+104BC">>],
      [c |-> "U+104E5", lower |-> <<"U+104E5">>, upper |-> <<"U+104BD">>, title |-> <<"U+104BD">>],
      [c |-> "U+104E6", lower |-> <<"U+104E6">>, upper |-> <<"U+104BE">>, title |-> <<"U+104BE">>],
      [c |-> "U+104E7", lower |-> <<"U+104E7">>, upper |-> <<"U+104BF">>, title |-> <<"U+104BF">>],
      [c |-> "U+104E8", lower |-> <<"U+104E8">>, upper |-> <<"U+104C0">>, title |-> <<"U+104C0">>],
      [c |-> "U+104E9", lower |-> <<"U+104E9">>, upper |-> <<"U+104C1">>, title |-> <<"U+104C1">>],
      [c |-> "U+104EA", lower |-> <<"U+104EA">>, upper |-> <<"U+104C2">>, title |-> <<"U+104C2">>],
      [c |-> "U+104EB", lower |-> <<"U+104EB">>, upper |-> <<"U+104C3">>, title |-> <<"U+104C3">>],
      [c |-> "U+104EC", lower |-> <<"U+104EC">>, upper |-> <<"U+104C4">>, title |-> <<"U+104C4">>],
      [c |-> "U+104ED", lower |-> <<"U+104ED">>, upper |-> <<"U+104C5">>, title |-> <<"U+104C5">>],
      [c |-> "U+104EE", lower |-> <<"U+104EE">>, upper |-> <<"U+104C6">>, title |-> <<"U+104C6">>],
      [c |-> "U+104EF", lower |-> <<"U+104EF">>, upper |-> <<"U+104C7">>, title |-> <<"U+104C7">>],
      [c |-> "U+104F0", lower |-> <<"U+104F0">>, upper |-> <<"U+104C8">>, title |-> <<"U+104C8">>],
      [c |-> "U+104F1", lower |-> <<"U+104F1">>, upper |-> <<"U+104C9">>, title |-> <<"U+104C9">>],
      [c |-> "U+104F2", lower |-> <<"U+104F2">>, upper |-> <<"U+104CA">>, title |-> <<"U+104CA">>],
      [c |-> "U+104F3", lower |-> <<"U+104F3">>, upper |-> <<"U+104CB">>, title |-> <<"U+104CB">>],
      [c |-> "U+104F4", lower |-> <<"U+104F4">>, upper |-> <<"U+104CC">>, title |-> <<"U+104CC">>],
      [c |-> "U+104F5", lower |-> <<"U+104F5">>, upper |-> <<"U+104CD">>, title |-> <<"U+104CD">>],
      [c |-> "U+104F6", lower |-> <<"U+104F6">>, upper |-> <<"U+104CE">>, title |-> <<"U+104CE">>],
      [c |-> "U+104F7", lower |-> <<"U+104F7">>, upper |-> <<"U+104CF">>, title |-> <<"U+104CF">>],
      [c |-> "U+104F8", lower |-> <<"U+104F8">>, upper |-> <<"U+104D0">>, title |-> <<"U+104D0">>],
      [c |-> "U+104F9", lower |-> <<"U+104F9">>, upper |-> <<"U+104D1">>, title |-> <<"U+104D1">>],
      [c |-> "U+104FA", lower |-> <<"U+104FA">>, upper |-> <<"U+104D2">>, title |-> <<"U+104D2">>],
      [c |-> "U+104FB", lower |-> <<"U+104FB">>, upper |-> <<"U+104D3">>, title |-> <<"U+104D3">>],
      [c |-> "U+10570", lower |-> <<"U+10597">>, upper |-> <<"U+10570">>, title |-> <<"U+10570">>],
      [c |-> "U+10571", lower |-> <<"U+10598">>, upper |-> <<"U+10571">>, title |-> <<"U+10571">>],
      [c |-> "U+10572", lower |-> <<"U+10599">>, upper |-> <<"U+10572">>, title |-> <<"U+10572">>],
      [c |-> "U+10573", lower |-> <<"U+1059A">>, upper |-> <<"U+10573">>, title |-> <<"U+10573">>],
      [c |-> "U+10574", lower |-> <<"U+1059B">>, upper |-> <<"U+10574">>, title |-> <<"U+10574">>],
      [c |-> "U+10575", lower |-> <<"U+1059C">>, upper |-> <<"U+10575">>, title |-> <<"U+10575">>],
      [c |-> "U+10576", lower |-> <<"U+1059D">>, upper |-> <<"U+10576">>, title |-> <<"U+10576">>],
      [c |-> "U+10577", lower |-> <<"U+1059E">>, upper |-> <<"U+10577">>, title |-> <<"U+10577">>],
      [c |-> "U+10578", lower |-> <<"U+1059F">>, upper |-> <<"U+10578">>, title |-> <<"U+10578">>],
      [c |-> "U+10579", lower |-> <<"U+105A0">>, upper |-> <<"U+10579">>, title |-> <<"U+10579">>],
      [c |-> "U+1057A", lower |-> <<"U+105A1">>, upper |-> <<"U+1057A">>, title |-> <<"U+1057A">>],
      [c |-> "U+1057C", lower |-> <<"U+105A3">>, upper |-> <<"U+1057C">>, title |-> <<"U+1057C">>],
      [c |-> "U+1057D", lower |-> <<"U+105A4">>, upper |-> <<"U+1057D">>, title |-> <<"U+1057D">>],
      [c |-> "U+1057E", lower |-> <<"U+105A5">>, upper |-> <<"U+1057E">>, title |-> <<"U+1057E">>],
      [c |-> "U+1057F", lower |-> <<"U+105A6">>, upper |-> <<"U+1057F">>, title |-> <<"U+1057F">>],
      [c |-> "U+10580", lower |-> <<"U+105A7">>, upper |-> <<"U+10580">>, title |-> <<"U+10580">>],
      [c |-> "U+10581", lower |-> <<"U+105A8">>, upper |-> <<"U+10581">>, title |-> <<"U+10581">>],
      [c |-> "U+10582", lower |-> <<"U+105A9">>, upper |-> <<"U+10582">>, title |-> <<"U+10582">>],
      [c |-> "U+10583", lower |-> <<"U+105AA">>, upper |-> <<"U+10583">>, title |-> <<"U+10583">>],
      [c |-> "U+10584", lower |-> <<"U+105AB">>, upper |-> <<"U+10584">>, title |-> <<"U+10584">>],
      [c |-> "U+10585", lower |-> <<"U+105AC">>, upper |-> <<"U+10585">>, title |-> <<"U+10585">>],
      [c |-> "U+10586", lower |-> <<"U+105AD">>, upper |-> <<"U+10586">>, title |-> <<"U+10586">>],
      [c |-> "U+10587", lower |-> <<"U+105AE">>, upper |-> <<"U+10587">>, title |-> <<"U+10587">>],
      [c |-> "U+10588", lower |-> <<"U+105AF">>, upper |-> <<"U+10588">>, title |-> <<"U+10588">>],
      [c |-> "U+10589", lower |-> <<"U+105B0">>, upper |-> <<"U+10589">>, title |-> <<"U+10589">>],
      [c |-> "U+1058A", lower |-> <<"U+105B1">>, upper |-> <<"U+1058A">>, title |-> <<"U+1058A">>],
      [c |-> "U+1058C", lower |-> <<"U+105B3">>, upper |-> <<"U+1058C">>, title |-> <<"U+1058C">>],
      [c |-> "U+1058D", lower |-> <<"U+105B4">>, upper |-> <<"U+1058D">>, title |-> <<"U+1058D">>],
      [c |-> "U+1058E", lower |-> <<"U+105B5">>, upper |-> <<"U+1058E">>, title |-> <<"U+1058E">>],
      [c |-> "U+1058F", lower |-> <<"U+105B6">>, upper |-> <<"U+1058F">>, title |-> <<"U+1058F">>],
      [c |-> "U+10590", lower |-> <<"U+105B7">>, upper |-> <<"U+10590">>, title |-> <<"U+10590">>],
      [c |-> "U+10591", lower |-> <<"U+105B8">>, upper |-> <<"U+10591">>, title |-> <<"U+10591">>],
      [c |-> "U+10592", lower |-> <<"U+105B9">>, upper |-> <<"U+10592">>, title |-> <<"U+10592">>],
      [c |-> "U+10594", lower |-> <<"U+105BB">>, upper |-> <<"U+10594">>, title |-> <<"U+10594">>],
      [c |-> "U+10595", lower |-> <<"U+105BC">>, upper |-> <<"U+10595">>, title |-> <<"U+10595">>],
      [c |-> "U+10597", lower |-> <<"U+10597">>, upper |-> <<"U+10570">>, title |-> <<"U+10570">>],
      [c |-> "U+10598", lower |-> <<"U+10598">>, upper |-> <<"U+10571">>, title |-> <<"U+10571">>],
      [c |-> "U+10599", lower |-> <<"U+10599">>, upper |-> <<"U+10572">>, title |-> <<"U+10572">>],
      [c |-> "U+1059A", lower |-> <<"U+1059A">>, upper |-> <<"U+10573">>, title |-> <<"U+10573">>],
      [c |-> "U+1059B", lower |-> <<"U+1059B">>, upper |-> <<"U+10574">>, title |-> <<"U+10574">>],
      [c |-> "U+1059C", lower |-> <<"U+1059C">>, upper |-> <<"U+10575">>, title |-> <<"U+10575">>],
      [c |-> "U+1059D", lower |-> <<"U+1059D">>, upper |-> <<"U+10576">>, title |-> <<"U+10576">>],
      [c |-> "U+1059E", lower |-> <<"U+1059E">>, upper |-> <<"U+10577">>, title |-> <<"U+10577">>],
      [c |-> "U+1059F", lower |-> <<"U+1059F">>, upper |-> <<"U+10578">>, title |-> <<"U+10578">>],
      [c |-> "U+105A0", lower |-> <<"U+105A0">>, upper |-> <<"U+10579">>, title |-> <<"U+10579">>],
      [c |-> "U+105A1", lower |-> <<"U+105A1">>, upper |-> <<"U+1057A">>, title |-> <<"U+1057A">>],
      [c |-> "U+105A3", lower |-> <<"U+105A3">>, upper |-> <<"U+1057C">>, title |-> <<"U+1057C">>],
      [c |-> "U+105A4", lower |-> <<"U+105A4">>, upper |-> <<"U+1057D">>, title |-> <<"U+1057D">>],
      [c |-> "U+105A5", lower |-> <<"U+105A5">>, upper |-> <<"U+1057E">>, title |-> <<"U+1057E">>],
      [c |-> "U+105A6", lower |-> <<"U+105A6">>, upper |-> <<"U+1057F">>, title |-> <<"U+1057F">>],
      [c |-> "U+105A7", lower |-> <<"U+105A7">>, upper |-> <<"U+10580">>, title |-> <<"U+10580">>],
      [c |-> "U+105A8", lower |-> <<"U+105A8">>, upper |-> <<"U+10581">>, title |-> <<"U+10581">>],
      [c |-> "U+105A9", lower |-> <<"U+105A9">>, upper |-> <<"U+10582">>, title |-> <<"U+10582">>],
      [c |-> "U+105AA", lower |-> <<"U+105AA">>, upper |-> <<"U+10583">>, title |-> <<"U+10583">>],
      [c |-> "U+105AB", lower |-> <<"U+105AB">>, upper |-> <<"U+10584">>, title |-> <<"U+10584">>],
      [c |-> "U+105AC", lower |-> <<"U+105AC">>, upper |-> <<"U+10585">>, title |-> <<"U+10585">>],
      [c |-> "U+105AD", lower |-> <<"U+105AD">>, upper |-> <<"U+10586">>, title |-> <<"U+10586">>],
      [c |-> "U+105AE", lower |-> <<"U+105AE">>, upper |-> <<"U+10587">>, title |-> <<"U+10587">>],
      [c |-> "U+105AF", lower |-> <<"U+105AF">>, upper |-> <<"U+10588">>, title |-> <<"U+10588">>],
      [c |-> "U+105B0", lower |-> <<"U+105B0">>, upper |-> <<"U+10589">>, title |-> <<"U+10589">>],
      [c |-> "U+105B1", lower |-> <<"U+105B1">>, upper |-> <<"U+1058A">>, title |-> <<"U+1058A">>],
      [c |-> "U+105B3", lower |-> <<"U+105B3">>, upper |-> <<"U+1058C">>, title |-> <<"U+1058C">>],
      [c |-> "U+105B4", lower |-> <<"U+105B4">>, upper |-> <<"U+1058D">>, title |-> <<"U+1058D">>],
      [c |-> "U+105B5", lower |-> <<"U+105B5">>, upper |-> <<"U+1058E">>, title |-> <<"U+1058E">>],
      [c |-> "U+105B6", lower |-> <<"U+105B6">>, upper |-> <<"U+1058F">>, title |-> <<"U+1058F">>],
      [c |-> "U+105B7", lower |-> <<"U+105B7">>, upper |-> <<"U+10590">>, title |-> <<"U+10590">>],
      [c |-> "U+105B8", lower |-> <<"U+105B8">>, upper |-> <<"U+10591">>, title |-> <<"U+10591">>],
      [c |-> "U+105B9", lower |-> <<"U+105B9">>, upper |-> <<"U+10592">>, title |-> <<"U+10592">>],
      [c |-> "U+105BB", lower |-> <<"U+105BB">>, upper |-> <<"U+10594">>, title |-> <<"U+10594">>],
      [c |-> "U+105BC", lower |-> <<"U+105BC">>, upper |-> <<"U+10595">>, title |-> <<"U+10595">>],
      [c |-> "U+10C80", lower |-> <<"U+10CC0">>, upper |-> <<"U+10C80">>, title |-> <<"U+10C80">>],
      [c |-> "U+10C81", lower |-> <<"U+10CC1">>, upper |-> <<"U+10C81">>, title |-> <<"U+10C81">>],
      [c |-> "U+10C82", lower |-> <<"U+10CC2">>, upper |-> <<"U+10C82">>, title |-> <<"U+10C82">>],
      [c |-> "U+10C83", lower |-> <<"U+10CC3">>, upper |-> <<"U+10C83">>, title |-> <<"U+10C83">>],
      [c |-> "U+10C84", lower |-> <<"U+10CC4">>, upper |-> <<"U+10C84">>, title |-> <<"U+10C84">>],
      [c |-> "U+10C85", lower |-> <<"U+10CC5">>, upper |-> <<"U+10C85">>, title |-> <<"U+10C85">>],
      [c |-> "U+10C86", lower |-> <<"U+10CC6">>, upper |-> <<"U+10C86">>, title |-> <<"U+10C86">>],
      [c |-> "U+10C87", lower |-> <<"U+10CC7">>, upper |-> <<"U+10C87">>, title |-> <<"U+10C87">>],
      [c |-> "U+10C88", lower |-> <<"U+10CC8">>, upper |-> <<"U+10C88">>, title |-> <<"U+10C88">>],
      [c |-> "U+10C89", lower |-> <<"U+10CC9">>, upper |-> <<"U+10C89">>, title |-> <<"U+10C89">>],
      [c |-> "U+10C8A", lower |-> <<"U+10CCA">>, upper |-> <<"U+10C8A">>, title |-> <<"U+10C8A">>],
      [c |-> "U+10C8B", lower |-> <<"U+10CCB">>, upper |-> <<"U+10C8B">>, title |-> <<"U+10C8B">>],
      [c |-> "U+10C8C", lower |-> <<"U+10CCC">>, upper |-> <<"U+10C8C">>, title |-> <<"U+10C8C">>],
      [c |-> "U+10C8D", lower |-> <<"U+10CCD">>, upper |-> <<"U+10C8D">>, title |-> <<"U+10C8D">>],
      [c |-> "U+10C8E", lower |-> <<"U+10CCE">>, upper |-> <<"U+10C8E">>, title |-> <<"U+10C8E">>],
      [c |-> "U+10C8F", lower |-> <<"U+10CCF">>, upper |-> <<"U+10C8F">>, title |-> <<"U+10C8F">>],
      [c |-> "U+10C90", lower |-> <<"U+10CD0">>, upper |-> <<"U+10C90">>, title |-> <<"U+10C90">>],
      [c |-> "U+10C91", lower |-> <<"U+10CD1">>, upper |-> <<"U+10C91">>, title |-> <<"U+10C91">>],
      [c |-> "U+10C92", lower |-> <<"U+10CD2">>, upper |-> <<"U+10C92">>, title |-> <<"U+10C92">>],
      [c |-> "U+10C93", lower |-> <<"U+10CD3">>, upper |-> <<"U+10C93">>, title |-> <<"U+10C93">>],
      [c |-> "U+10C94", lower |-> <<"U+10CD4">>, upper |-> <<"U+10C94">>, title |-> <<"U+10C94">>],
      [c |-> "U+10C95", lower |-> <<"U+10CD5">>, upper |-> <<"U+10C95">>, title |-> <<"U+10C95">>],
      [c |-> "U+10C96", lower |-> <<"U+10CD6">>, upper |-> <<"U+10C96">>, title |-> <<"U+10C96">>],
      [c |-> "U+10C97", lower |-> <<"U+10CD7">>, upper |-> <<"U+10C97">>, title |-> <<"U+10C97">>],
      [c |-> "U+10C98", lower |-> <<"U+10CD8">>, upper |-> <<"U+10C98">>, title |-> <<"U+10C98">>],
      [c |-> "U+10C99", lower |-> <<"U+10CD9">>, upper |-> <<"U+10C99">>, title |-> <<"U+10C99">>],
      [c |-> "U+10C9A", lower |-> <<"U+10CDA">>, upper |-> <<"U+10C9A">>, title |-> <<"U+10C9A">>],
      [c |-> "U+10C9B", lower |-> <<"U+10CDB">>, upper |-> <<"U+10C9B">>, title |-> <<"U+10C9B">>],
      [c |-> "U+10C9C", lower |-> <<"U+10CDC">>, upper |-> <<"U+10C9C">>, title |-> <<"U+10C9C">>],
      [c |-> "U+10C9D", lower |-> <<"U+10CDD">>, upper |-> <<"U+10C9D">>, title |-> <<"U+10C9D">>],
      [c |-> "U+10C9E", lower |-> <<"U+10CDE">>, upper |-> <<"U+10C9E">>, title |-> <<"U+10C9E">>],
      [c |-> "U+10C9F", lower |-> <<"U+10CDF">>, upper |-> <<"U+10C9F">>, title |-> <<"U+10C9F">>],
      [c |-> "U+10CA0", lower |-> <<"U+10CE0">>, upper |-> <<"U+10CA0">>, title |-> <<"U+10CA0">>],
      [c |-> "U+10CA1", lower |-> <<"U+10CE1">>, upper |-> <<"U+10CA1">>, title |-> <<"U+10CA1">>],
      [c |-> "U+10CA2", lower |-> <<"U+10CE2">>, upper |-> <<"U+10CA2">>, title |-> <<"U+10CA2">>],
      [c |-> "U+10CA3", lower |-> <<"U+10CE3">>, upper |-> <<"U+10CA3">>, title |-> <<"U+10CA3">>],
      [c |-> "U+10CA4", lower |-> <<"U+10CE4">>, upper |-> <<"U+10CA4">>, title |-> <<"U+10CA4">>],
      [c |-> "U+10CA5", lower |-> <<"U+10CE5">>, upper |-> <<"U+10CA5">>, title |-> <<"U+10CA5">>],
      [c |-> "U+10CA6", lower |-> <<"U+10CE6">>, upper |-> <<"U+10CA6">>, title |-> <<"U+10CA6">>],
      [c |-> "U+10CA7", lower |-> <<"U+10CE7">>, upper |-> <<"U+10CA7">>, title |-> <<"U+10CA7">>],
      [c |-> "U+10CA8", lower |-> <<"U+10CE8">>, upper |-> <<"U+10CA8">>, title |-> <<"U+10CA8">>],
      [c |-> "U+10CA9", lower |-> <<"U+10CE9">>, upper |-> <<"U+10CA9">>, title |-> <<"U+10CA9">>],
      [c |-> "U+10CAA", lower |-> <<"U+10CEA">>, upper |-> <<"U+10CAA">>, title |-> <<"U+10CAA">>],
      [c |-> "U+10CAB", lower |-> <<"U+10CEB">>, upper |-> <<"U+10CAB">>, title |-> <<"U+10CAB">>],
      [c |-> "U+10CAC", lower |-> <<"U+10CEC">>, upper |-> <<"U+10CAC">>, title |-> <<"U+10CAC">>],
      [c |-> "U+10CAD", lower |-> <<"U+10CED">>, upper |-> <<"U+10CAD">>, title |-> <<"U+10CAD">>],
      [c |-> "U+10CAE", lower |-> <<"U+10CEE">>, upper |-> <<"U+10CAE">>, title |-> <<"U+10CAE">>],
      [c |-> "U+10CAF", lower |-> <<"U+10CEF">>, upper |-> <<"U+10CAF">>, title |-> <<"U+10CAF">>],
      [c |-> "U+10CB0", lower |-> <<"U+10CF0">>, upper |-> <<"U+10CB0">>, title |-> <<"U+10CB0">>],
      [c |-> "U+10CB1", lower |-> <<"U+10CF1">>, upper |-> <<"U+10CB1">>, title |-> <<"U+10CB1">>],
      [c |-> "U+10CB2", lower |-> <<"U+10CF2">>, upper |-> <<"U+10CB2">>, title |-> <<"U+10CB2">>],
      [c |-> "U+10CC0", lower |-> <<"U+10CC0">>, upper |-> <<"U+10C80">>, title |-> <<"U+10C80">>],
      [c |-> "U+10CC1", lower |-> <<"U+10CC1">>, upper |-> <<"U+10C81">>, title |-> <<"U+10C81">>],
      [c |-> "U+10CC2", lower |-> <<"U+10CC2">>, upper |-> <<"U+10C82">>, title |-> <<"U+10C82">>],
      [c |-> "U+10CC3", lower |-> <<"U+10CC3">>, upper |-> <<"U+10C83">>, title |-> <<"U+10C83">>],
      [c |-> "U+10CC4", lower |-> <<"U+10CC4">>, upper |-> <<"U+10C84">>, title |-> <<"U+10C84">>],
      [c |-> "U+10CC5", lower |-> <<"U+10CC5">>, upper |-> <<"U+10C85">>, title |-> <<"U+10C85">>],
      [c |-> "U+10CC6", lower |-> <<"U+10CC6">>, upper |-> <<"U+10C86">>, title |-> <<"U+10C86">>],
      [c |-> "U+10CC7", lower |-> <<"U+10CC7">>, upper |-> <<"U+10C87">>, title |-> <<"U+10C87">>],
      [c |-> "U+10CC8", lower |-> <<"U+10CC8">>, upper |-> <<"U+10C88">>, title |-> <<"U+10C88">>],
      [c |-> "U+10CC9", lower |-> <<"U+10CC9">>, upper |-> <<"U+10C89">>, title |-> <<"U+10C89">>],
      [c |-> "U+10CCA", lower |-> <<"U+10CCA">>, upper |-> <<"U+10C8A">>, title |-> <<"U+10C8A">>],
      [c |-> "U+10CCB", lower |-> <<"U+10CCB">>, upper |-> <<"U+10C8B">>, title |-> <<"U+10C8B">>],
      [c |-> "U+10CCC", lower |-> <<"U+10CCC">>, upper |-> <<"U+10C8C">>, title |-> <<"U+10C8C">>],
      [c |-> "U+10CCD", lower |-> <<"U+10CCD">>, upper |-> <<"U+10C8D">>, title |-> <<"U+10C8D">>],
      [c |-> "U+10CCE", lower |-> <<"U+10CCE">>, upper |-> <<"U+10C8E">>, title |-> <<"U+10C8E">>],
      [c |-> "U+10CCF", lower |-> <<"U+10CCF">>, upper |-> <<"U+10C8F">>, title |-> <<"U+10C8F">>],
      [c |-> "U+10CD0", lower |-> <<"U+10CD0">>, upper |-> <<"U+10C90">>, title |-> <<"U+10C90">>],
      [c |-> "U+10CD1", lower |-> <<"U+10CD1">>, upper |-> <<"U+10C91">>, title |-> <<"U+10C91">>],
      [c |-> "U+10CD2", lower |-> <<"U+10CD2">>, upper |-> <<"U+10C92">>, title |-> <<"U+10C92">>],
      [c |-> "U+10CD3", lower |-> <<"U+10CD3">>, upper |-> <<"U+10C93">>, title |-> <<"U+10C93">>],
      [c |-> "U+10CD4", lower |-> <<"U+10CD4">>, upper |-> <<"U+10C94">>, title |-> <<"U+10C94">>],
      [c |-> "U+10CD5", lower |-> <<"U+10CD5">>, upper |-> <<"U+10C95">>, title |-> <<"U+10C95">>],
      [c |-> "U+10CD6", lower |-> <<"U+10CD6">>, upper |-> <<"U+10C96">>, title |-> <<"U+10C96">>],
      [c |-> "U+10CD7", lower |-> <<"U+10CD7">>, upper |-> <<"U+10C97">>, title |-> <<"U+10C97">>],
      [c |-> "U+10CD8", lower |-> <<"U+10CD8">>, upper |-> <<"U+10C98">>, title |-> <<"U+10C98">>],
      [c |-> "U+10CD9", lower |-> <<"U+10CD9">>, upper |-> <<"U+10C99">>, title |-> <<"U+10C99">>],
      [c |-> "U+10CDA", lower |-> <<"U+10CDA">>, upper |-> <<"U+10C9A">>, title |-> <<"U+10C9A">>],
      [c |-> "U+10CDB", lower |-> <<"U+10CDB">>, upper |-> <<"U+10C9B">>, title |-> <<"U+10C9B">>],
      [c |-> "U+10CDC", lower |-> <<"U+10CDC">>, upper |-> <<"U+10C9C">>, title |-> <<"U+10C9C">>],
      [c |-> "U+10CDD", lower |-> <<"U+10CDD">>, upper |-> <<"U+10C9D">>, title |-> <<"U+10C9D">>],
      [c |-> "U+10CDE", lower |-> <<"U+10CDE">>, upper |-> <<"U+10C9E">>, title |-> <<"U+10C9E">>],
      [c |-> "U+10CDF", lower |-> <<"U+10CDF">>, upper |-> <<"U+10C9F">>, title |-> <<"U+10C9F">>],
      [c |-> "U+10CE0", lower |-> <<"U+10CE0">>, upper |-> <<"U+10CA0">>, title |-> <<"U+10CA0">>],
      [c |-> "U+10CE1", lower |-> <<"U+10CE1">>, upper |-> <<"U+10CA1">>, title |-> <<"U+10CA1">>],
      [c |-> "U+10CE2", lower |-> <<"U+10CE2">>, upper |-> <<"U+10CA2">>, title |-> <<"U+10CA2">>],
      [c |-> "U+10CE3", lower |-> <<"U+10CE3">>, upper |-> <<"U+10CA3">>, title |-> <<"U+10CA3">>],
      [c |-> "U+10CE4", lower |-> <<"U+10CE4">>, upper |-> <<"U+10CA4">>, title |-> <<"U+10CA4">>],
      [c |-> "U+10CE5", lower |-> <<"U+10CE5">>, upper |-> <<"U+10CA5">>, title |-> <<"U+10CA5">>],
      [c |-> "U+10CE6", lower |-> <<"U+10CE6">>, upper |-> <<"U+10CA6">>, title |-> <<"U+10CA6">>],
      [c |-> "U+10CE7", lower |-> <<"U+10CE7">>, upper |-> <<"U+10CA7">>, title |-> <<"U+10CA7">>],
      [c |-> "U+10CE8", lower |-> <<"U+10CE8">>, upper |-> <<"U+10CA8">>, title |-> <<"U+10CA8">>],
      [c |-> "U+10CE9", lower |-> <<"U+10CE9">>, upper |-> <<"U+10CA9">>, title |-> <<"U+10CA9">>],
      [c |-> "U+10CEA", lower |-> <<"U+10CEA">>, upper |-> <<"U+10CAA">>, title |-> <<"U+10CAA">>],
      [c |-> "U+10CEB", lower |-> <<"U+10CEB">>, upper |-> <<"U+10CAB">>, title |-> <<"U+10CAB">>],
      [c |-> "U+10CEC", lower |-> <<"U+10CEC">>, upper |-> <<"U+10CAC">>, title |-> <<"U+10CAC">>],
      [c |-> "U+10CED", lower |-> <<"U+10CED">>, upper |-> <<"U+10CAD">>, title |-> <<"U+10CAD">>],
      [c |-> "U+10CEE", lower |-> <<"U+10CEE">>, upper |-> <<"U+10CAE">>, title |-> <<"U+10CAE">>],
      [c |-> "U+10CEF", lower |-> <<"U+10CEF">>, upper |-> <<"U+10CAF">>, title |-> <<"U+10CAF">>],
      [c |-> "U+10CF0", lower |-> <<"U+10CF0">>, upper |-> <<"U+10CB0">>, title |-> <<"U+10CB0">>],
      [c |-> "U+10CF1", lower |-> <<"U+10CF1">>, upper |-> <<"U+10CB1">>, title |-> <<"U+10CB1">>],
      [c |-> "U+10CF2", lower |-> <<"U+10CF2">>, upper |-> <<"U+10CB2">>, title |-> <<"U+10CB2">>],
      [c |-> "U+118A0", lower |-> <<"U+118C0">>, upper |-> <<"U+118A0">>, title |-> <<"U+118A0">>],
      [c |-> "U+118A1", lower |-> <<"U+118C1">>, upper |-> <<"U+118A1">>, title |-> <<"U+118A1">>],
      [c |-> "U+118A2", lower |-> <<"U+118C2">>, upper |-> <<"U+118A2">>, title |-> <<"U+118A2">>],
      [c |-> "U+118A3", lower |-> <<"U+118C3">>, upper |-> <<"U+118A3">>, title |-> <<"U+118A3">>],
      [c |-> "U+118A4", lower |-> <<"U+118C4">>, upper |-> <<"U+118A4">>, title |-> <<"U+118A4">>],
      [c |-> "U+118A5", lower |-> <<"U+118C5">>, upper |-> <<"U+118A5">>, title |-> <<"U+118A5">>],
      [c |-> "U+118A6", lower |-> <<"U+118C6">>, upper |-> <<"U+118A6">>, title |-> <<"U+118A6">>],
      [c |-> "U+118A7", lower |-> <<"U+118C7">>, upper |-> <<"U+118A7">>, title |-> <<"U+118A7">>],
      [c |-> "U+118A8", lower |-> <<"U+118C8">>, upper |-> <<"U+118A8">>, title |-> <<"U+118A8">>],
      [c |-> "U+118A9", lower |-> <<"U+118C9">>, upper |-> <<"U+118A9">>, title |-> <<"U+118A9">>],
      [c |-> "U+118AA", lower |-> <<"U+118CA">>, upper |-> <<"U+118AA">>, title |-> <<"U+118AA">>],
      [c |-> "U+118AB", lower |-> <<"U+118CB">>, upper |-> <<"U+118AB">>, title |-> <<"U+118AB">>],
      [c |-> "U+118AC", lower |-> <<"U+118CC">>, upper |-> <<"U+118AC">>, title |-> <<"U+118AC">>],
      [c |-> "U+118AD", lower |-> <<"U+118CD">>, upper |-> <<"U+118AD">>, title |-> <<"U+118AD">>],
      [c |-> "U+118AE", lower |-> <<"U+118CE">>, upper |-> <<"U+118AE">>, title |-> <<"U+118AE">>],
      [c |-> "U+118AF", lower |-> <<"U+118CF">>, upper |-> <<"U+118AF">>, title |-> <<"U+118AF">>],
      [c |-> "U+118B0", lower |-> <<"U+118D0">>, upper |-> <<"U+118B0">>, title |-> <<"U+118B0">>],
      [c |-> "U+118B1", lower |-> <<"U+118D1">>, upper |-> <<"U+118B1">>, title |-> <<"U+118B1">>],
      [c |-> "U+118B2", lower |-> <<"U+118D2">>, upper |-> <<"U+118B2">>, title |-> <<"U+118B2">>],
      [c |-> "U+118B3", lower |-> <<"U+118D3">>, upper |-> <<"U+118B3">>, title |-> <<"U+118B3">>],
      [c |-> "U+118B4", lower |-> <<"U+118D4">>, upper |-> <<"U+118B4">>, title |-> <<"U+118B4">>],
      [c |-> "U+118B5", lower |-> <<"U+118D5">>, upper |-> <<"U+118B5">>, title |-> <<"U+118B5">>],
      [c |-> "U+118B6", lower |-> <<"U+118D6">>, upper |-> <<"U+118B6">>, title |-> <<"U+118B6">>],
      [c |-> "U+118B7", lower |-> <<"U+118D7">>, upper |-> <<"U+118B7">>, title |-> <<"U+118B7">>],
      [c |-> "U+118B8", lower |-> <<"U+118D8">>, upper |-> <<"U+118B8">>, title |-> <<"U+118B8">>],
      [c |-> "U+118B9", lower |-> <<"U+118D9">>, upper |-> <<"U+118B9">>, title |-> <<"U+118B9">>],
      [c |-> "U+118BA", lower |-> <<"U+118DA">>, upper |-> <<"U+118BA">>, title |-> <<"U+118BA">>],
      [c |-> "U+118BB", lower |-> <<"U+118DB">>, upper |-> <<"U+118BB">>, title |-> <<"U+118BB">>],
      [c |-> "U+118BC", lower |-> <<"U+118DC">>, upper |-> <<"U+118BC">>, title |-> <<"U+118BC">>],
      [c |-> "U+118BD", lower |-> <<"U+118DD">>, upper |-> <<"U+118BD">>, title |-> <<"U+118BD">>],
      [c |-> "U+118BE", lower |-> <<"U+118DE">>, upper |-> <<"U+118BE">>, title |-> <<"U+118BE">>],
      [c |-> "U+118BF", lower |-> <<"U+118DF">>, upper |-> <<"U+118BF">>, title |-> <<"U+118BF">>],
      [c |-> "U+118C0", lower |-> <<"U+118C0">>, upper |-> <<"U+118A0">>, title |-> <<"U+118A0">>],
      [c |-> "U+118C1", lower |-> <<"U+118C1">>, upper |-> <<"U+118A1">>, title |-> <<"U+118A1">>],
      [c |-> "U+118C2", lower |-> <<"U+118C2">>, upper |-> <<"U+118A2">>, title |-> <<"U+118A2">>],
      [c |-> "U+118C3", lower |-> <<"U+118C3">>, upper |-> <<"U+118A3">>, title |-> <<"U+118A3">>],
      [c |-> "U+118C4", lower |-> <<"U+118C4">>, upper |-> <<"U+118A4">>, title |-> <<"U+118A4">>],
      [c |-> "U+118C5", lower |-> <<"U+118C5">>, upper |-> <<"U+118A5">>, title |-> <<"U+118A5">>],
      [c |-> "U+118C6", lower |-> <<"U+118C6">>, upper |-> <<"U+118A6">>, title |-> <<"U+118A6">>],
      [c |-> "U+118C7", lower |-> <<"U+118C7">>, upper |-> <<"U+118A7">>, title |-> <<"U+118A7">>],
      [c |-> "U+118C8", lower |-> <<"U+118C8">>, upper |-> <<"U+118A8">>, title |-> <<"U+118A8">>],
      [c |-> "U+118C9", lower |-> <<"U+118C9">>, upper |-> <<"U+118A9">>, title |-> <<"U+118A9">>],
      [c |-> "U+118CA", lower |-> <<"U+118CA">>, upper |-> <<"U+118AA">>, title |-> <<"U+118AA">>],
      [c |-> "U+118CB", lower |-> <<"U+118CB">>, upper |-> <<"U+118AB">>, title |-> <<"U+118AB">>],
      [c |-> "U+118CC", lower |-> <<"U+118CC">>, upper |-> <<"U+118AC">>, title |-> <<"U+118AC">>],
      [c |-> "U+118CD", lower |-> <<"U+118CD">>, upper |-> <<"U+118AD">>, title |-> <<"U+118AD">>],
      [c |-> "U+118CE", lower |-> <<"U+118CE">>, upper |-> <<"U+118AE">>, title |-> <<"U+118AE">>],
      [c |-> "U+118CF", lower |-> <<"U+118CF">>, upper |-> <<"U+118AF">>, title |-> <<"U+118AF">>],
      [c |-> "U+118D0", lower |-> <<"U+118D0">>, upper |-> <<"U+118B0">>, title |-> <<"U+118B0">>],
      [c |-> "U+118D1", lower |-> <<"U+118D1">>, upper |-> <<"U+118B1">>, title |-> <<"U+118B1">>],
      [c |-> "U+118D2", lower |-> <<"U+118D2">>, upper |-> <<"U+118B2">>, title |-> <<"U+118B2">>],
      [c |-> "U+118D3", lower |-> <<"U+118D3">>, upper |-> <<"U+118B3">>, title |-> <<"U+118B3">>],
      [c |-> "U+118D4", lower |-> <<"U+118D4">>, upper |-> <<"U+118B4">>, title |-> <<"U+118B4">>],
      [c |-> "U+118D5", lower |-> <<"U+118D5">>, upper |-> <<"U+118B5">>, title |-> <<"U+118B5">>],
      [c |-> "U+118D6", lower |-> <<"U+118D6">>, upper |-> <<"U+118B6">>, title |-> <<"U+118B6">>],
      [c |-> "U+118D7", lower |-> <<"U+118D7">>, upper |-> <<"U+118B7">>, title |-> <<"U+118B7">>],
      [c |-> "U+118D8", lower |-> <<"U+118D8">>, upper |-> <<"U+118B8">>, title |-> <<"U+118B8">>],
      [c |-> "U+118D9", lower |-> <<"U+118D9">>, upper |-> <<"U+118B9">>, title |-> <<"U+118B9">>],
      [c |-> "U+118DA", lower |-> <<"U+118DA">>, upper |-> <<"U+118BA">>, title |-> <<"U+118BA">>],
      [c |-> "U+118DB", lower |-> <<"U+118DB">>, upper |-> <<"U+118BB">>, title |-> <<"U+118BB">>],
      [c |-> "U+118DC", lower |-> <<"U+118DC">>, upper |-> <<"U+118BC">>, title |-> <<"U+118BC">>],
      [c |-> "U+118DD", lower |-> <<"U+118DD">>, upper |-> <<"U+118BD">>, title |-> <<"U+118BD">>],
      [c |-> "U+118DE", lower |-> <<"U+118DE">>, upper |-> <<"U+118BE">>, title |-> <<"U+118BE">>],
      [c |-> "U+118DF", lower |-> <<"U+118DF">>, upper |-> <<"U+118BF">>, title |-> <<"U+118BF">>],
      [c |-> "U+16E40", lower |-> <<"U+16E60">>, upper |-> <<"U+16E40">>, title |-> <<"U+16E40">>],
      [c |-> "U+16E41", lower |-> <<"U+16E61">>, upper |-> <<"U+16E41">>, title |-> <<"U+16E41">>],
      [c |-> "U+16E42", lower |-> <<"U+16E62">>, upper |-> <<"U+16E42">>, title |-> <<"U+16E42">>],
      [c |-> "U+16E43", lower |-> <<"U+16E63">>, upper |-> <<"U+16E43">>, title |-> <<"U+16E43">>],
      [c |-> "U+16E44", lower |-> <<"U+16E64">>, upper |-> <<"U+16E44">>, title |-> <<"U+16E44">>],
      [c |-> "U+16E45", lower |-> <<"U+16E65">>, upper |-> <<"U+16E45">>, title |-> <<"U+16E45">>],
      [c |-> "U+16E46", lower |-> <<"U+16E66">>, upper |-> <<"U+16E46">>, title |-> <<"U+16E46">>],
      [c |-> "U+16E47", lower |-> <<"U+16E67">>, upper |-> <<"U+16E47">>, title |-> <<"U+16E47">>],
      [c |-> "U+16E48", lower |-> <<"U+16E68">>, upper |-> <<"U+16E48">>, title |-> <<"U+16E48">>],
      [c |-> "U+16E49", lower |-> <<"U+16E69">>, upper |-> <<"U+16E49">>, title |-> <<"U+16E49">>],
      [c |-> "U+16E4A", lower |-> <<"U+16E6A">>, upper |-> <<"U+16E4A">>, title |-> <<"U+16E4A">>],
      [c |-> "U+16E4B", lower |-> <<"U+16E6B">>, upper |-> <<"U+16E4B">>, title |-> <<"U+16E4B">>],
      [c |-> "U+16E4C", lower |-> <<"U+16E6C">>, upper |-> <<"U+16E4C">>, title |-> <<"U+16E4C">>],
      [c |-> "U+16E4D", lower |-> <<"U+16E6D">>, upper |-> <<"U+16E4D">>, title |-> <<"U+16E4D">>],
      [c |-> "U+16E4E", lower |-> <<"U+16E6E">>, upper |-> <<"U+16E4E">>, title |-> <<"U+16E4E">>],
      [c |-> "U+16E4F", lower |-> <<"U+16E6F">>, upper |-> <<"U+16E4F">>, title |-> <<"U+16E4F">>],
      [c |-> "U+16E50", lower |-> <<"U+16E70">>, upper |-> <<"U+16E50">>, title |-> <<"U+16E50">>],
      [c |-> "U+16E51", lower |-> <<"U+16E71">>, upper |-> <<"U+16E51">>, title |-> <<"U+16E51">>],
      [c |-> "U+16E52", lower |-> <<"U+16E72">>, upper |-> <<"U+16E52">>, title |-> <<"U+16E52">>],
      [c |-> "U+16E53", lower |-> <<"U+16E73">>, upper |-> <<"U+16E53">>, title |-> <<"U+16E53">>],
      [c |-> "U+16E54", lower |-> <<"U+16E74">>, upper |-> <<"U+16E54">>, title |-> <<"U+16E54">>],
      [c |-> "U+16E55", lower |-> <<"U+16E75">>, upper |-> <<"U+16E55">>, title |-> <<"U+16E55">>],
      [c |-> "U+16E56", lower |-> <<"U+16E76">>, upper |-> <<"U+16E56">>, title |-> <<"U+16E56">>],
      [c |-> "U+16E57", lower |-> <<"U+16E77">>, upper |-> <<"U+16E57">>, title |-> <<"U+16E57">>],
      [c |-> "U+16E58", lower |-> <<"U+16E78">>, upper |-> <<"U+16E58">>, title |-> <<"U+16E58">>],
      [c |-> "U+16E59", lower |-> <<"U+16E79">>, upper |-> <<"U+16E59">>, title |-> <<"U+16E59">>],
      [c |-> "U+16E5A", lower |-> <<"U+16E7A">>, upper |-> <<"U+16E5A">>, title |-> <<"U+16E5A">>],
      [c |-> "U+16E5B", lower |-> <<"U+16E7B">>, upper |-> <<"U+16E5B">>, title |-> <<"U+16E5B">>],
      [c |-> "U+16E5C", lower |-> <<"U+16E7C">>, upper |-> <<"U+16E5C">>, title |-> <<"U+16E5C">>],
      [c |-> "U+16E5D", lower |-> <<"U+16E7D">>, upper |-> <<"U+16E5D">>, title |-> <<"U+16E5D">>],
      [c |-> "U+16E5E", lower |-> <<"U+16E7E">>, upper |-> <<"U+16E5E">>, title |-> <<"U+16E5E">>],
      [c |-> "U+16E5F", lower |-> <<"U+16E7F">>, upper |-> <<"U+16E5F">>, title |-> <<"U+16E5F">>],
      [c |-> "U+16E60", lower |-> <<"U+16E60">>, upper |-> <<"U+16E40">>, title |-> <<"U+16E40">>],
      [c |-> "U+16E61", lower |-> <<"U+16E61">>, upper |-> <<"U+16E41">>, title |-> <<"U+16E41">>],
      [c |-> "U+16E62", lower |-> <<"U+16E62">>, upper |-> <<"U+16E42">>, title |-> <<"U+16E42">>],
      [c |-> "U+16E63", lower |-> <<"U+16E63">>, upper |-> <<"U+16E43">>, title |-> <<"U+16E43">>],
      [c |-> "U+16E64", lower |-> <<"U+16E64">>, upper |-> <<"U+16E44">>, title |-> <<"U+16E44">>],
      [c |-> "U+16E65", lower |-> <<"U+16E65">>, upper |-> <<"U+16E45">>, title |-> <<"U+16E45">>],
      [c |-> "U+16E66", lower |-> <<"U+16E66">>, upper |-> <<"U+16E46">>, title |-> <<"U+16E46">>],
      [c |-> "U+16E67", lower |-> <<"U+16E67">>, upper |-> <<"U+16E47">>, title |-> <<"U+16E47">>],
      [c |-> "U+16E68", lower |-> <<"U+16E68">>, upper |-> <<"U+16E48">>, title |-> <<"U+16E48">>],
      [c |-> "U+16E69", lower |-> <<"U+16E69">>, upper |-> <<"U+16E49">>, title |-> <<"U+16E49">>],
      [c |-> "U+16E6A", lower |-> <<"U+16E6A">>, upper |-> <<"U+16E4A">>, title |-> <<"U+16E4A">>],
      [c |-> "U+16E6B", lower |-> <<"U+16E6B">>, upper |-> <<"U+16E4B">>, title |-> <<"U+16E4B">>],
      [c |-> "U+16E6C", lower |-> <<"U+16E6C">>, upper |-> <<"U+16E4C">>, title |-> <<"U+16E4C">>],
      [c |-> "U+16E6D", lower |-> <<"U+16E6D">>, upper |-> <<"U+16E4D">>, title |-> <<"U+16E4D">>],
      [c |-> "U+16E6E", lower |-> <<"U+16E6E">>, upper |-> <<"U+16E4E">>, title |-> <<"U+16E4E">>],
      [c |-> "U+16E6F", lower |-> <<"U+16E6F">>, upper |-> <<"U+16E4F">>, title |-> <<"U+16E4F">>],
      [c |-> "U+16E70", lower |-> <<"U+16E70">>, upper |-> <<"U+16E50">>, title |-> <<"U+16E50">>],
      [c |-> "U+16E71", lower |-> <<"U+16E71">>, upper |-> <<"U+16E51">>, title |-> <<"U+16E51">>],
      [c |-> "U+16E72", lower |-> <<"U+16E72">>, upper |-> <<"U+16E52">>, title |-> <<"U+16E52">>],
      [c |-> "U+16E73", lower |-> <<"U+16E73">>, upper |-> <<"U+16E53">>, title |-> <<"U+16E53">>],
      [c |-> "U+16E74", lower |-> <<"U+16E74">>, upper |-> <<"U+16E54">>, title |-> <<"U+16E54">>],
      [c |-> "U+16E75", lower |-> <<"U+16E75">>, upper |-> <<"U+16E55">>, title |-> <<"U+16E55">>],
      [c |-> "U+16E76", lower |-> <<"U+16E76">>, upper |-> <<"U+16E56">>, title |-> <<"U+16E56">>],
      [c |-> "U+16E77", lower |-> <<"U+16E77">>, upper |-> <<"U+16E57">>, title |-> <<"U+16E57">>],
      [c |-> "U+16E78", lower |-> <<"U+16E78">>, upper |-> <<"U+16E58">>, title |-> <<"U+16E58">>],
      [c |-> "U+16E79", lower |-> <<"U+16E79">>, upper |-> <<"U+16E59">>, title |-> <<"U+16E59">>],
      [c |-> "U+16E7A", lower |-> <<"U+16E7A">>, upper |-> <<"U+16E5A">>, title |-> <<"U+16E5A">>],
      [c |-> "U+16E7B", lower |-> <<"U+16E7B">>, upper |-> <<"U+16E5B">>, title |-> <<"U+16E5B">>],
      [c |-> "U+16E7C", lower |-> <<"U+16E7C">>, upper |-> <<"U+16E5C">>, title |-> <<"U+16E5C">>],
      [c |-> "U+16E7D", lower |-> <<"U+16E7D">>, upper |-> <<"U+16E5D">>, title |-> <<"U+16E5D">>],
      [c |-> "U+16E7E", lower |-> <<"U+16E7E">>, upper |-> <<"U+16E5E">>, title |-> <<"U+16E5E">>],
      [c |-> "U+16E7F", lower |-> <<"U+16E7F">>, upper |-> <<"U+16E5F">>, title |-> <<"U+16E5F">>],
      [c |-> "U+1E900", lower |-> <<"U+1E922">>, upper |-> <<"U+1E900">>, title |-> <<"U+1E900">>],
      [c |-> "U+1E901", lower |-> <<"U+1E923">>, upper |-> <<"U+1E901">>, title |-> <<"U+1E901">>],
      [c |-> "U+1E902", lower |-> <<"U+1E924">>, upper |-> <<"U+1E902">>, title |-> <<"U+1E902">>],
      [c |-> "U+1E903", lower |-> <<"U+1E925">>, upper |-> <<"U+1E903">>, title |-> <<"U+1E903">>],
      [c |-> "U+1E904", lower |-> <<"U+1E926">>, upper |-> <<"U+1E904">>, title |-> <<"U+1E904">>],
      [c |-> "U+1E905", lower |-> <<"U+1E927">>, upper |-> <<"U+1E905">>, title |-> <<"U+1E905">>],
      [c |-> "U+1E906", lower |-> <<"U+1E928">>, upper |-> <<"U+1E906">>, title |-> <<"U+1E906">>],
      [c |-> "U+1E907", lower |-> <<"U+1E929">>, upper |-> <<"U+1E907">>, title |-> <<"U+1E907">>],
      [c |-> "U+1E908", lower |-> <<"U+1E92A">>, upper |-> <<"U+1E908">>, title |-> <<"U+1E908">>],
      [c |-> "U+1E909", lower |-> <<"U+1E92B">>, upper |-> <<"U+1E909">>, title |-> <<"U+1E909">>],
      [c |-> "U+1E90A", lower |-> <<"U+1E92C">>, upper |-> <<"U+1E90A">>, title |-> <<"U+1E90A">>],
      [c |-> "U+1E90B", lower |-> <<"U+1E92D">>, upper |-> <<"U+1E90B">>, title |-> <<"U+1E90B">>],
      [c |-> "U+1E90C", lower |-> <<"U+1E92E">>, upper |-> <<"U+1E90C">>, title |-> <<"U+1E90C">>],
      [c |-> "U+1E90D", lower |-> <<"U+1E92F">>, upper |-> <<"U+1E90D">>, title |-> <<"U+1E90D">>],
      [c |-> "U+1E90E", lower |-> <<"U+1E930">>, upper |-> <<"U+1E90E">>, title |-> <<"U+1E90E">>],
      [c |-> "U+1E90F", lower |-> <<"U+1E931">>, upper |-> <<"U+1E90F">>, title |-> <<"U+1E90F">>],
      [c |-> "U+1E910", lower |-> <<"U+1E932">>, upper |-> <<"U+1E910">>, title |-> <<"U+1E910">>],
      [c |-> "U+1E911", lower |-> <<"U+1E933">>, upper |-> <<"U+1E911">>, title |-> <<"U+1E911">>],
      [c |-> "U+1E912", lower |-> <<"U+1E934">>, upper |-> <<"U+1E912">>, title |-> <<"U+1E912">>],
      [c |-> "U+1E913", lower |-> <<"U+1E935">>, upper |-> <<"U+1E913">>, title |-> <<"U+1E913">>],
      [c |-> "U+1E914", lower |-> <<"U+1E936">>, upper |-> <<"U+1E914">>, title |-> <<"U+1E914">>],
      [c |-> "U+1E915", lower |-> <<"U+1E937">>, upper |-> <<"U+1E915">>, title |-> <<"U+1E915">>],
      [c |-> "U+1E916", lower |-> <<"U+1E938">>, upper |-> <<"U+1E916">>, title |-> <<"U+1E916">>],
      [c |-> "U+1E917", lower |-> <<"U+1E939">>, upper |-> <<"U+1E917">>, title |-> <<"U+1E917">>],
      [c |-> "U+1E918", lower |-> <<"U+1E93A">>, upper |-> <<"U+1E918">>, title |-> <<"U+1E918">>],
      [c |-> "U+1E919", lower |-> <<"U+1E93B">>, upper |-> <<"U+1E919">>, title |-> <<"U+1E919">>],
      [c |-> "U+1E91A", lower |-> <<"U+1E93C">>, upper |-> <<"U+1E91A">>, title |-> <<"U+1E91A">>],
      [c |-> "U+1E91B", lower |-> <<"U+1E93D">>, upper |-> <<"U+1E91B">>, title |-> <<"U+1E91B">>],
      [c |-> "U+1E91C", lower |-> <<"U+1E93E">>, upper |-> <<"U+1E91C">>, title |-> <<"U+1E91C">>],
      [c |-> "U+1E91D", lower |-> <<"U+1E93F">>, upper |-> <<"U+1E91D">>, title |-> <<"U+1E91D">>],
      [c |-> "U+1E91E", lower |-> <<"U+1E940">>, upper |-> <<"U+1E91E">>, title |-> <<"U+1E91E">>],
      [c |-> "U+1E91F", lower |-> <<"U+1E941">>, upper |-> <<"U+1E91F">>, title |-> <<"U+1E91F">>],
      [c |-> "U+1E920", lower |-> <<"U+1E942">>, upper |-> <<"U+1E920">>, title |-> <<"U+1E920">>],
      [c |-> "U+1E921", lower |-> <<"U+1E943">>, upper |-> <<"U+1E921">>, title |-> <<"U+1E921">>],
      [c |-> "U+1E922", lower |-> <<"U+1E922">>, upper |-> <<"U+1E900">>, title |-> <<"U+1E900">>],
      [c |-> "U+1E923", lower |-> <<"U+1E923">>, upper |-> <<"U+1E901">>, title |-> <<"U+1E901">>],
      [c |-> "U+1E924", lower |-> <<"U+1E924">>, upper |-> <<"U+1E902">>, title |-> <<"U+1E902">>],
      [c |-> "U+1E925", lower |-> <<"U+1E925">>, upper |-> <<"U+1E903">>, title |-> <<"U+1E903">>],
      [c |-> "U+1E926", lower |-> <<"U+1E926">>, upper |-> <<"U+1E904">>, title |-> <<"U+1E904">>],
      [c |-> "U+1E927", lower |-> <<"U+1E927">>, upper |-> <<"U+1E905">>, title |-> <<"U+1E905">>],
      [c |-> "U+1E928", lower |-> <<"U+1E928">>, upper |-> <<"U+1E906">>, title |-> <<"U+1E906">>],
      [c |-> "U+1E929", lower |-> <<"U+1E929">>, upper |-> <<"U+1E907">>, title |-> <<"U+1E907">>],
      [c |-> "U+1E92A", lower |-> <<"U+1E92A">>, upper |-> <<"U+1E908">>, title |-> <<"U+1E908">>],
      [c |-> "U+1E92B", lower |-> <<"U+1E92B">>, upper |-> <<"U+1E909">>, title |-> <<"U+1E909">>],
      [c |-> "U+1E92C", lower |-> <<"U+1E92C">>, upper |-> <<"U+1E90A">>, title |-> <<"U+1E90A">>],
      [c |-> "U+1E92D", lower |-> <<"U+1E92D">>, upper |-> <<"U+1E90B">>, title |-> <<"U+1E90B">>],
      [c |-> "U+1E92E", lower |-> <<"U+1E92E">>, upper |-> <<"U+1E90C">>, title |-> <<"U+1E90C">>],
      [c |-> "U+1E92F", lower |-> <<"U+1E92F">>, upper |-> <<"U+1E90D">>, title |-> <<"U+1E90D">>],
      [c |-> "U+1E930", lower |-> <<"U+1E930">>, upper |-> <<"U+1E90E">>, title |-> <<"U+1E90E">>],
      [c |-> "U+1E931", lower |-> <<"U+1E931">>, upper |-> <<"U+1E90F">>, title |-> <<"U+1E90F">>],
      [c |-> "U+1E932", lower |-> <<"U+1E932">>, upper |-> <<"U+1E910">>, title |-> <<"U+1E910">>],
      [c |-> "U+1E933", lower |-> <<"U+1E933">>, upper |-> <<"U+1E911">>, title |-> <<"U+1E911">>],
      [c |-> "U+1E934", lower |-> <<"U+1E934">>, upper |-> <<"U+1E912">>, title |-> <<"U+1E912">>],
      [c |-> "U+1E935", lower |-> <<"U+1E935">>, upper |-> <<"U+1E913">>, title |-> <<"U+1E913">>],
      [c |-> "U+1E936", lower |-> <<"U+1E936">>, upper |-> <<"U+1E914">>, title |-> <<"U+1E914">>],
      [c |-> "U+1E937", lower |-> <<"U+1E937">>, upper |-> <<"U+1E915">>, title |-> <<"U+1E915">>],
      [c |-> "U+1E938", lower |-> <<"U+1E938">>, upper |-> <<"U+1E916">>, title |-> <<"U+1E916">>],
      [c |-> "U+1E939", lower |-> <<"U+1E939">>, upper |-> <<"U+1E917">>, title |-> <<"U+1E917">>],
      [c |-> "U+1E93A", lower |-> <<"U+1E93A">>, upper |-> <<"U+1E918">>, title |-> <<"U+1E918">>],
      [c |-> "U+1E93B", lower |-> <<"U+1E93B">>, upper |-> <<"U+1E919">>, title |-> <<"U+1E919">>],
      [c |-> "U+1E93C", lower |-> <<"U+1E93C">>, upper |-> <<"U+1E91A">>, title |-> <<"U+1E91A">>],
      [c |-> "U+1E93D", lower |-> <<"U+1E93D">>, upper |-> <<"U+1E91B">>, title |-> <<"U+1E91B">>],
      [c |-> "U+1E93E", lower |-> <<"U+1E93E">>, upper |-> <<"U+1E91C">>, title |-> <<"U+1E91C">>],
      [c |-> "U+1E93F", lower |-> <<"U+1E93F">>, upper |-> <<"U+1E91D">>, title |-> <<"U+1E91D">>],
      [c |-> "U+1E940", lower |-> <<"U+1E940">>, upper |-> <<"U+1E91E">>, title |-> <<"U+1E91E">>],
      [c |-> "U+1E941", lower |-> <<"U+1E941">>, upper |-> <<"U+1E91F">>, title |-> <<"U+1E91F">>],
      [c |-> "U+1E942", lower |-> <<"U+1E942">>, upper |-> <<"U+1E920">>, title |-> <<"U+1E920">>],
      [c |-> "U+1E943", lower |-> <<"U+1E943">>, upper |-> <<"U+1E921">>, title |-> <<"U+1E921">>] }

\* The characters outside ASCII with c.isupper().
UppercaseChars ==
    { "U+00C0", "U+00C1", "U+00C2", "U+00C3", "U+00C4", "U+00C5", "U+00C6", "U+00C7",
      "U+00C8", "U+00C9", "U+00CA", "U+00CB", "U+00CC", "U+00CD", "U+00CE", "U+00CF",
      "U+00D0", "U+00D1", "U+00D2", "U+00D3", "U+00D4", "U+00D5", "U+00D6", "U+00D8",
      "U+00D9", "U+00DA", "U+00DB", "U+00DC", "U+00DD", "U+00DE", "U+0100", "U+0102",
      "U+0104", "U+0106", "U+0108", "U+010A", "U+010C", "U+010E", "U+0110", "U+0112",
      "U+0114", "U+0116", "U+0118", "U+011A", "U+011C", "U+011E", "U+0120", "U+0122",
      "U+0124", "U+0126", "U+0128", "U+012A", "U+012C", "U+012E", "U+0130", "U+0132",
      "U+0134", "U+0136", "U+0139", "U+013B", "U+013D", "U+013F", "U+0141", "U+0143",
      "U+0145", "U+0147", "U+014A", "U+014C", "U+014E", "U+0150", "U+0152", "U+0154",
      "U+0156", "U+0158", "U+015A", "U+015C", "U+015E", "U+0160", "U+0162", "U+0164",
      "U+0166", "U+0168", "U+016A", "U+016C", "U+016E", "U+0170", "U+0172", "U+0174",
      "U+0176", "U+0178", "U+0179", "U+017B", "U+017D", "U+0181", "U+0182", "U+0184",
      "U+0186", "U+0187", "U+0189", "U+018A", "U+018B", "U+018E", "U+018F", "U+0190",
      "U+0191", "U+0193", "U+0194", "U+0196", "U+0197", "U+0198", "U+019C", "U+019D",
      "U+019F", "U+01A0", "U+01A2", "U+01A4", "U+01A6", "U+01A7", "U+01A9", "U+01AC",
      "U+01AE", "U+01AF", "U+01B1", "U+01B2", "U+01B3", "U+01B5", "U+01B7", "U+01B8",
      "U+01BC", "U+01C4", "U+01C7", "U+01CA", "U+01CD", "U+01CF", "U+01D1", "U+01D3",
      "U+01D5", "U+01D7", "U+01D9", "U+01DB", "U+01DE", "U+01E0", "U+01E2", "U+01E4",
      "U+01E6", "U+01E8", "U+01EA", "U+01EC", "U+01EE", "U+01F1", "U+01F4", "U+01F6",
      "U+01F7", "U+01F8", "U+01FA", "U+01FC", "U+01FE", "U+0200", "U+0202", "U+0204",
      "U+0206", "U+0208", "U+020A", "U+020C", "U+020E", "U+0210", "U+0212", "U+0214",
      "U+0216", "U+0218", "U+021A", "U+021C", "U+021E", "U+0220", "U+0222", "U+0224",
      "U+0226", "U+0228", "U+022A", "U+022C", "U+022E", "U+0230", "U+0232", "U+023A",
      "U+023B", "U+023D", "U+023E", "U+0241", "U+0243", "U+0244", "U+0245", "U+0246",
      "U+0248", "U+024A", "U+024C", "U+024E", "U+0370", "U+0372", "U+0376", "U+037F",
      "U+0386", "U+0388", "U+0389", "U+038A", "U+038C", "U+038E", "U+038F", "U+0391",
      "U+0392", "U+0393", "U+0394", "U+0395", "U+0396", "U+0397", "U+0398", "U+0399",
      "U+039A", "U+039B", "U+039C", "U+039D", "U+039E", "U+039F", "U+03A0", "U+03A1",
      "U+03A3", "U+03A4", "U+03A5", "U+03A6", "U+03A7", "U+03A8", "U+03A9", "U+03AA",
      "U+03AB", "U+03CF", "U+03D2", "U+03D3", "U+03D4", "U+03D8", "U+03DA", "U+03DC",
      "U+03DE", "U+03E0", "U+03E2", "U+03E4", "U+03E6", "U+03E8", "U+03EA", "U+03EC",
      "U+03EE", "U+03F4", "U+03F7", "U+03F9", "U+03FA", "U+03FD", "U+03FE", "U+03FF",
      "U+0400", "U+0401", "U+0402", "U+0403", "U+0404", "U+0405", "U+0406", "U+0407",
      "U+0408", "U+0409", "U+040A", "U+040B", "U+040C", "U+040D", "U+040E", "U+040F",
      "U+0410", "U+0411", "U+0412", "U+0413", "U+0414", "U+0415", "U+0416", "U+0417",
      "U+0418", "U+0419", "U+041A", "U+041B", "U+041C", "U+041D", "U+041E", "U+041F",
      "U+0420", "U+0421", "U+0422", "U+0423", "U+0424", "U+0425", "U+0426", "U+0427",
      "U+0428", "U+0429", "U+042A", "U+042B", "U+042C", "U+042D", "U+042E", "U+042F",
      "U+0460", "U+0462", "U+0464", "U+0466", "U+0468", "U+046A", "U+046C", "U+046E",
      "U+0470", "U+0472", "U+0474", "U+0476", "U+0478", "U+047A", "U+047C", "U+047E",
      "U+0480", "U+048A", "U+048C", "U+048E", "U+0490", "U+0492", "U+0494", "U+0496",
      "U+0498", "U+049A", "U+049C", "U+049E", "U+04A0", "U+04A2", "U+04A4", "U+04A6",
      "U+04A8", "U+04AA", "U+04AC", "U+04AE", "U+04B0", "U+04B2", "U+04B4", "U+04B6",
      "U+04B8", "U+04BA", "U+04BC", "U+04BE", "U+04C0", "U+04C1", "U+04C3", "U+04C5",
      "U+04C7", "U+04C9", "U+04CB", "U+04CD", "U+04D0", "U+04D2", "U+04D4", "U+04D6",
      "U+04D8", "U+04DA", "U+04DC", "U+04DE", "U+04E0", "U+04E2", "U+04E4", "U+04E6",
      "U+04E8", "U+04EA", "U+04EC", "U+04EE", "U+04F0", "U+04F2", "U+04F4", "U+04F6",
      "U+04F8", "U+04FA", "U+04FC", "U+04FE", "U+0500", "U+0502", "U+0504", "U+0506",
      "U+0508", "U+050A", "U+050C", "U+050E", "U+0510", "U+0512", "U+0514", "U+0516",
      "U+0518", "U+051A", "U+051C", "U+051E", "U+0520", "U+0522", "U+0524", "U+0526",
      "U+0528", "U+052A", "U+052C", "U+052E", "U+0531", "U+0532", "U+0533", "U+0534",
      "U+0535", "U+0536", "U+0537", "U+0538", "U+0539", "U+053A", "U+053B", "U+053C",
      "U+053D", "U+053E", "U+053F", "U+0540", "U+0541", "U+0542", "U+0543", "U+0544",
      "U+0545", "U+0546", "U+0547", "U+0548", "U+0549", "U+054A", "U+054B", "U+054C",
      "U+054D", "U+054E", "U+054F", "U+0550", "U+0551", "U+0552", "U+0553", "U+0554",
      "U+0555", "U+0556", "U+10A0", "U+10A1", "U+10A2", "U+10A3", "U+10A4", "U+10A5",
      "U+10A6", "U+10A7", "U+10A8", "U+10A9", "U+10AA", "U+10AB", "U+10AC", "U+10AD",
      "U+10AE", "U+10AF", "U+10B0", "U+10B1", "U+10B2", "U+10B3", "U+10B4", "U+10B5",
      "U+10B6", "U+10B7", "U+10B8", "U+10B9", "U+10BA", "U+10BB", "U+10BC", "U+10BD",
      "U+10BE", "U+10BF", "U+10C0", "U+10C1", "U+10C2", "U+10C3", "U+10C4", "U+10C5",
      "U+10C7", "U+10CD", "U+13A0", "U+13A1", "U+13A2", "U+13A3", "U+13A4", "U+13A5",
      "U+13A6", "U+13A7", "U+13A8", "U+13A9", "U+13AA", "U+13AB", "U+13AC", "U+13AD",
      "U+13AE", "U+13AF", "U+13B0", "U+13B1", "U+13B2", "U+13B3", "U+13B4", "U+13B5",
      "U+13B6", "U+13B7", "U+13B8", "U+13B9", "U+13BA", "U+13BB", "U+13BC", "U+13BD",
      "U+13BE", "U+13BF", "U+13C0", "U+13C1", "U+13C2", "U+13C3", "U+13C4", "U+13C5",
      "U+13C6", "U+13C7", "U+13C8", "U+13C9", "U+13CA", "U+13CB", "U+13CC", "U+13CD",
      "U+13CE", "U+13CF", "U+13D0", "U+13D1", "U+13D2", "U+13D3", "U+13D4", "U+13D5",
      "U+13D6", "U+13D7", "U+13D8", "U+13D9", "U+13DA", "U+13DB", "U+13DC", "U+13DD",
      "U+13DE", "U+13DF", "U+13E0", "U+13E1", "U+13E2", "U+13E3", "U+13E4", "U+13E5",
      "U+13E6", "U+13E7", "U+13E8", "U+13E9", "U+13EA", "U+13EB", "U+13EC", "U+13ED",
      "U+13EE", "U+13EF", "U+13F0", "U+13F1", "U+13F2", "U+13F3", "U+13F4", "U+13F5",
      "U+1C90", "U+1C91", "U+1C92", "U+1C93", "U+1C94", "U+1C95", "U+1C96", "U+1C97",
      "U+1C98", "U+1C99", "U+1C9A", "U+1C9B", "U+1C9C", "U+1C9D", "U+1C9E", "U+1C9F",
      "U+1CA0", "U+1CA1", "U+1CA2", "U+1CA3", "U+1CA4", "U+1CA5", "U+1CA6", "U+1CA7",
      "U+1CA8", "U+1CA9", "U+1CAA", "U+1CAB", "U+1CAC", "U+1CAD", "U+1CAE", "U+1CAF",
      "U+1CB0", "U+1CB1", "U+1CB2", "U+1CB3", "U+1CB4", "U+1CB5", "U+1CB6", "U+1CB7",
      "U+1CB8", "U+1CB9", "U+1CBA", "U+1CBD", "U+1CBE", "U+1CBF", "U+1E00", "U+1E02",
      "U+1E04", "U+1E06", "U+1E08", "U+1E0A", "U+1E0C", "U+1E0E", "U+1E10", "U+1E12",
      "U+1E14", "U+1E16", "U+1E18", "U+1E1A", "U+1E1C", "U+1E1E", "U+1E20", "U+1E22",
      "U+1E24", "U+1E26", "U+1E28", "U+1E2A", "U+1E2C", "U+1E2E", "U+1E30", "U+1E32",
      "U+1E34", "U+1E36", "U+1E38", "U+1E3A", "U+1E3C", "U+1E3E", "U+1E40", "U+1E42",
      "U+1E44", "U+1E46", "U+1E48", "U+1E4A", "U+1E4C", "U+1E4E", "U+1E50", "U+1E52",
      "U+1E54", "U+1E56", "U+1E58", "U+1E5A", "U+1E5C", "U+1E5E", "U+1E60", "U+1E62",
      "U+1E64", "U+1E66", "U+1E68", "U+1E6A", "U+1E6C", "U+1E6E", "U+1E70", "U+1E72",
      "U+1E74", "U+1E76", "U+1E78", "U+1E7A", "U+1E7C", "U+1E7E", "U+1E80", "U+1E82",
      "U+1E84", "U+1E86", "U+1E88", "U+1E8A", "U+1E8C", "U+1E8E", "U+1E90", "U+1E92",
      "U+1E94", "U+1E9E", "U+1EA0", "U+1EA2", "U+1EA4", "U+1EA6", "U+1EA8", "U+1EAA",
      "U+1EAC", "U+1EAE", "U+1EB0", "U+1EB2", "U+1EB4", "U+1EB6", "U+1EB8", "U+1EBA",
      "U+1EBC", "U+1EBE", "U+1EC0", "U+1EC2", "U+1EC4", "U+1EC6", "U+1EC8", "U+1ECA",
      "U+1ECC", "U+1ECE", "U+1ED0", "U+1ED2", "U+1ED4", "U+1ED6", "U+1ED8", "U+1EDA",
      "U+1EDC", "U+1EDE", "U+1EE0", "U+1EE2", "U+1EE4", "U+1EE6", "U+1EE8", "U+1EEA",
      "U+1EEC", "U+1EEE", "U+1EF0", "U+1EF2", "U+1EF4", "U+1EF6", "U+1EF8", "U+1EFA",
      "U+1EFC", "U+1EFE", "U+1F08", "U+1F09", "U+1F0A", "U+1F0B", "U+1F0C", "U+1F0D",
      "U+1F0E", "U+1F0F", "U+1F18", "U+1F19", "U+1F1A", "U+1F1B", "U+1F1C", "U+1F1D",
      "U+1F28", "U+1F29", "U+1F2A", "U+1F2B", "U+1F2C", "U+1F2D", "U+1F2E", "U+1F2F",
      "U+1F38", "U+1F39", "U+1F3A", "U+1F3B", "U+1F3C", "U+1F3D", "U+1F3E", "U+1F3F",
      "U+1F48", "U+1F49", "U+1F4A", "U+1F4B", "U+1F4C", "U+1F4D", "U+1F59", "U+1F5B",
      "U+1F5D", "U+1F5F", "U+1F68", "U+1F69", "U+1F6A", "U+1F6B", "U+1F6C", "U+1F6D",
      "U+1F6E", "U+1F6F", "U+1FB8", "U+1FB9", "U+1FBA", "U+1FBB", "U+1FC8", "U+1FC9",
      "U+1FCA", "U+1FCB", "U+1FD8", "U+1FD9", "U+1FDA", "U+1FDB", "U+1FE8", "U+1FE9",
      "U+1FEA", "U+1FEB", "U+1FEC", "U+1FF8", "U+1FF9", "U+1FFA", "U+1FFB", "U+2102",
      "U+2107", "U+210B", "U+210C", "U+210D", "U+2110", "U+2111", "U+2112", "U+2115",
      "U+2119", "U+211A", "U+211B", "U+211C", "U+211D", "U+2124", "U+2126", "U+2128",
      "U+212A", "U+212B", "U+212C", "U+212D", "U+2130", "U+2131", "U+2132", "U+2133",
      "U+213E", "U+213F", "U+2145", "U+2160", "U+2161", "U+2162", "U+2163", "U+2164",
      "U+2165", "U+2166", "U+2167", "U+2168", "U+2169", "U+216A", "U+216B", "U+216C",
      "U+216D", "U+216E", "U+216F", "U+2183", "U+24B6", "U+24B7", "U+24B8", "U+24B9",
      "U+24BA", "U+24BB", "U+24BC", "U+24BD", "U+24BE", "U+24BF", "U+24C0", "U+24C1",
      "U+24C2", "U+24C3", "U+24C4", "U+24C5", "U+24C6", "U+24C7", "U+24C8", "U+24C9",
      "U+24CA", "U+24CB", "U+24CC", "U+24CD", "U+24CE", "U+24CF", "U+2C00", "U+2C01",
      "U+2C02", "U+2C03", "U+2C04", "U+2C05", "U+2C06", "U+2C07", "U+2C08", "U+2C09",
      "U+2C0A", "U+2C0B", "U+2C0C", "U+2C0D", "U+2C0E", "U+2C0F", "U+2C10", "U+2C11",
      "U+2C12", "U+2C13", "U+2C14", "U+2C15", "U+2C16", "U+2C17", "U+2C18", "U+2C19",
      "U+2C1A", "U+2C1B", "U+2C1C", "U+2C1D", "U+2C1E", "U+2C1F", "U+2C20", "U+2C21",
      "U+2C22", "U+2C23", "U+2C24", "U+2C25", "U+2C26", "U+2C27", "U+2C28", "U+2C29",
      "U+2C2A", "U+2C2B", "U+2C2C", "U+2C2D", "U+2C2E", "U+2C2F", "U+2C60", "U+2C62",
      "U+2C63", "U+2C64", "U+2C67", "U+2C69", "U+2C6B", "U+2C6D", "U+2C6E", "U+2C6F",
      "U+2C70", "U+2C72", "U+2C75", "U+2C7E", "U+2C7F", "U+2C80", "U+2C82", "U+2C84",
      "U+2C86", "U+2C88", "U+2C8A", "U+2C8C", "U+2C8E", "U+2C90", "U+2C92", "U+2C94",
      "U+2C96", "U+2C98", "U+2C9A", "U+2C9C", "U+2C9E", "U+2CA0", "U+2CA2", "U+2CA4",
      "U+2CA6", "U+2CA8", "U+2CAA", "U+2CAC", "U+2CAE", "U+2CB0", "U+2CB2", "U+2CB4",
      "U+2CB6", "U+2CB8", "U+2CBA", "U+2CBC", "U+2CBE", "U+2CC0", "U+2CC2", "U+2CC4",
      "U+2CC6", "U+2CC8", "U+2CCA", "U+2CCC", "U+2CCE", "U+2CD0", "U+2CD2", "U+2CD4",
      "U+2CD6", "U+2CD8", "U+2CDA", "U+2CDC", "U+2CDE", "U+2CE0", "U+2CE2", "U+2CEB",
      "U+2CED", "U+2CF2", "U+A640", "U+A642", "U+A644", "U+A646", "U+A648", "U+A64A",
      "U+A64C", "U+A64E", "U+A650", "U+A652", "U+A654", "U+A656", "U+A658", "U+A65A",
      "U+A65C", "U+A65E", "U+A660", "U+A662", "U+A664", "U+A666", "U+A668", "U+A66A",
      "U+A66C", "U+A680", "U+A682", "U+A684", "U+A686", "U+A688", "U+A68A", "U+A68C",
      "U+A68E", "U+A690", "U+A692", "U+A694", "U+A696", "U+A698", "U+A69A", "U+A722",
      "U+A724", "U+A726", "U+A728", "U+A72A", "U+A72C", "U+A72E", "U+A732", "U+A734",
      "U+A736", "U+A738", "U+A73A", "U+A73C", "U+A73E", "U+A740", "U+A742", "U+A744",
      "U+A746", "U+A748", "U+A74A", "U+A74C", "U+A74E", "U+A750", "U+A752", "U+A754",
      "U+A756", "U+A758", "U+A75A", "U+A75C", "U+A75E", "U+A760", "U+A762", "U+A764",
      "U+A766", "U+A768", "U+A76A", "U+A76C", "U+A76E", "U+A779", "U+A77B", "U+A77D",
      "U+A77E", "U+A780", "U+A782", "U+A784", "U+A786", "U+A78B", "U+A78D", "U+A790",
      "U+A792", "U+A796", "U+A798", "U+A79A", "U+A79C", "U+A79E", "U+A7A0", "U+A7A2",
      "U+A7A4", "U+A7A6", "U+A7A8", "U+A7AA", "U+A7AB", "U+A7AC", "U+A7AD", "U+A7AE",
      "U+A7B0", "U+A7B1", "U+A7B2", "U+A7B3", "U+A7B4", "U+A7B6", "U+A7B8", "U+A7BA",
      "U+A7BC", "U+A7BE", "U+A7C0", "U+A7C2", "U+A7C4", "U+A7C5", "U+A7C6", "U+A7C7",
      "U+A7C9", "U+A7D0", "U+A7D6", "U+A7D8", "U+A7F5", "U+FF21", "U+FF22", "U+FF23",
      "U+FF24", "U+FF25", "U+FF26", "U+FF27", "U+FF28", "U+FF29", "U+FF2A", "U+FF2B",
      "U+FF2C", "U+FF2D", "U+FF2E", "U+FF2F", "U+FF30", "U+FF31", "U+FF32", "U+FF33",
      "U+FF34", "U+FF35", "U+FF36", "U+FF37", "U+FF38", "U+FF39", "U+FF3A", "U+10400",
      "U+10401", "U+10402", "U+10403", "U+10404", "U+10405", "U+10406", "U+10407", "U+10408",
      "U+10409", "U+1040A", "U+1040B", "U+1040C", "U+1040D", "U+1040E", "U+1040F", "U+10410",
      "U+10411", "U+10412", "U+10413", "U+10414", "U+10415", "U+10416", "U+10417", "U+10418",
      "U+10419", "U+1041A", "U+1041B", "U+1041C", "U+1041D", "U+1041E", "U+1041F", "U+10420",
      "U+10421", "U+10422", "U+10423", "U+10424", "U+10425", "U+10426", "U+10427", "U+104B0",
      "U+104B1", "U+104B2", "U+104B3", "U+104B4", "U+104B5", "U+104B6", "U+104B7", "U+104B8",
      "U+104B9", "U+104BA", "U+104BB", "U+104BC", "U+104BD", "U+104BE", "U+104BF", "U+104C0",
      "U+104C1", "U+104C2", "U+104C3", "U+104C4", "U+104C5", "U+104C6", "U+104C7", "U+104C8",
      "U+104C9", "U+104CA", "U+104CB", "U+104CC", "U+104CD", "U+104CE", "U+104CF", "U+104D0",
      "U+104D1", "U+104D2", "U+104D3", "U+10570", "U+10571", "U+10572", "U+10573", "U+10574",
      "U+10575", "U+10576", "U+10577", "U+10578", "U+10579", "U+1057A", "U+1057C", "U+1057D",
      "U+1057E", "U+1057F", "U+10580", "U+10581", "U+10582", "U+10583", "U+10584", "U+10585",
      "U+10586", "U+10587", "U+10588", "U+10589", "U+1058A", "U+1058C", "U+1058D", "U+1058E",
      "U+1058F", "U+10590", "U+10591", "U+10592", "U+10594", "U+10595", "U+10C80", "U+10C81",
      "U+10C82", "U+10C83", "U+10C84", "U+10C85", "U+10C86", "U+10C87", "U+10C88", "U+10C89",
      "U+10C8A", "U+10C8B", "U+10C8C", "U+10C8D", "U+10C8E", "U+10C8F", "U+10C90", "U+10C91",
      "U+10C92", "U+10C93", "U+10C94", "U+10C95", "U+10C96", "U+10C97", "U+10C98", "U+10C99",
      "U+10C9A", "U+10C9B", "U+10C9C", "U+10C9D", "U+10C9E", "U+10C9F", "U+10CA0", "U+10CA1",
      "U+10CA2", "U+10CA3", "U+10CA4", "U+10CA5", "U+10CA6", "U+10CA7", "U+10CA8", "U+10CA9",
      "U+10CAA", "U+10CAB", "U+10CAC", "U+10CAD", "U+10CAE", "U+10CAF", "U+10CB0", "U+10CB1",
      "U+10CB2", "U+118A0", "U+118A1", "U+118A2", "U+118A3", "U+118A4", "U+118A5", "U+118A6",
      "U+118A7", "U+118A8", "U+118A9", "U+118AA", "U+118AB", "U+118AC", "U+118AD", "U+118AE",
      "U+118AF", "U+118B0", "U+118B1", "U+118B2", "U+118B3", "U+118B4", "U+118B5", "U+118B6",
      "U+118B7", "U+118B8", "U+118B9", "U+118BA", "U+118BB", "U+118BC", "U+118BD", "U+118BE",
      "U+118BF", "U+16E40", "U+16E41", "U+16E42", "U+16E43", "U+16E44", "U+16E45", "U+16E46",
      "U+16E47", "U+16E48", "U+16E49", "U+16E4A", "U+16E4B", "U+16E4C", "U+16E4D", "U+16E4E",
      "U+16E4F", "U+16E50", "U+16E51", "U+16E52", "U+16E53", "U+16E54", "U+16E55", "U+16E56",
      "U+16E57", "U+16E58", "U+16E59", "U+16E5A", "U+16E5B", "U+16E5C", "U+16E5D", "U+16E5E",
      "U+16E5F", "U+1D400", "U+1D401", "U+1D402", "U+1D403", "U+1D404", "U+1D405", "U+1D406",
      "U+1D407", "U+1D408", "U+1D409", "U+1D40A", "U+1D40B", "U+1D40C", "U+1D40D", "U+1D40E",
      "U+1D40F", "U+1D410", "U+1D411", "U+1D412", "U+1D413", "U+1D414", "U+1D415", "U+1D416",
      "U+1D417", "U+1D418", "U+1D419", "U+1D434", "U+1D435", "U+1D436", "U+1D437", "U+1D438",
      "U+1D439", "U+1D43A", "U+1D43B", "U+1D43C", "U+1D43D", "U+1D43E", "U+1D43F", "U+1D440",
      "U+1D441", "U+1D442", "U+1D443", "U+1D444", "U+1D445", "U+1D446", "U+1D447", "U+1D448",
      "U+1D449", "U+1D44A", "U+1D44B", "U+1D44C", "U+1D44D", "U+1D468", "U+1D469", "U+1D46A",
      "U+1D46B", "U+1D46C", "U+1D46D", "U+1D46E", "U+1D46F", "U+1D470", "U+1D471", "U+1D472",
      "U+1D473", "U+1D474", "U+1D475", "U+1D476", "U+1D477", "U+1D478", "U+1D479", "U+1D47A",
      "U+1D47B", "U+1D47C", "U+1D47D", "U+1D47E", "U+1D47F", "U+1D480", "U+1D481", "U+1D49C",
      "U+1D49E", "U+1D49F", "U+1D4A2", "U+1D4A5", "U+1D4A6", "U+1D4A9", "U+1D4AA", "U+1D4AB",
      "U+1D4AC", "U+1D4AE", "U+1D4AF", "U+1D4B0", "U+1D4B1", "U+1D4B2", "U+1D4B3", "U+1D4B4",
      "U+1D4B5", "U+1D4D0", "U+1D4D1", "U+1D4D2", "U+1D4D3", "U+1D4D4", "U+1D4D5", "U+1D4D6",
      "U+1D4D7", "U+1D4D8", "U+1D4D9", "U+1D4DA", "U+1D4DB", "U+1D4DC", "U+1D4DD", "U+1D4DE",
      "U+1D4DF", "U+1D4E0", "U+1D4E1", "U+1D4E2", "U+1D4E3", "U+1D4E4", "U+1D4E5", "U+1D4E6",
      "U+1D4E7", "U+1D4E8", "U+1D4E9", "U+1D504", "U+1D505", "U+1D507", "U+1D508", "U+1D509",
      "U+1D50A", "U+1D50D", "U+1D50E", "U+1D50F", "U+1D510", "U+1D511", "U+1D512", "U+1D513",
      "U+1D514", "U+1D516", "U+1D517", "U+1D518", "U+1D519", "U+1D51A", "U+1D51B", "U+1D51C",
      "U+1D538", "U+1D539", "U+1D53B", "U+1D53C", "U+1D53D", "U+1D53E", "U+1D540", "U+1D541",
      "U+1D542", "U+1D543", "U+1D544", "U+1D546", "U+1D54A", "U+1D54B", "U+1D54C", "U+1D54D",
      "U+1D54E", "U+1D54F", "U+1D550", "U+1D56C", "U+1D56D", "U+1D56E", "U+1D56F", "U+1D570",
      "U+1D571", "U+1D572", "U+1D573", "U+1D574", "U+1D575", "U+1D576", "U+1D577", "U+1D578",
      "U+1D579", "U+1D57A", "U+1D57B", "U+1D57C", "U+1D57D", "U+1D57E", "U+1D57F", "U+1D580",
      "U+1D581", "U+1D582", "U+1D583", "U+1D584", "U+1D585", "U+1D5A0", "U+1D5A1", "U+1D5A2",
      "U+1D5A3", "U+1D5A4", "U+1D5A5", "U+1D5A6", "U+1D5A7", "U+1D5A8", "U+1D5A9", "U+1D5AA",
      "U+1D5AB", "U+1D5AC", "U+1D5AD", "U+1D5AE", "U+1D5AF", "U+1D5B0", "U+1D5B1", "U+1D5B2",
      "U+1D5B3", "U+1D5B4", "U+1D5B5", "U+1D5B6", "U+1D5B7", "U+1D5B8", "U+1D5B9", "U+1D5D4",
      "U+1D5D5", "U+1D5D6", "U+1D5D7", "U+1D5D8", "U+1D5D9", "U+1D5DA", "U+1D5DB", "U+1D5DC",
      "U+1D5DD", "U+1D5DE", "U+1D5DF", "U+1D5E0", "U+1D5E1", "U+1D5E2", "U+1D5E3", "U+1D5E4",
      "U+1D5E5", "U+1D5E6", "U+1D5E7", "U+1D5E8", "U+1D5E9", "U+1D5EA", "U+1D5EB", "U+1D5EC",
      "U+1D5ED", "U+1D608", "U+1D609", "U+1D60A", "U+1D60B", "U+1D60C", "U+1D60D", "U+1D60E",
      "U+1D60F", "U+1D610", "U+1D611", "U+1D612", "U+1D613", "U+1D614", "U+1D615", "U+1D616",
      "U+1D617", "U+1D618", "U+1D619", "U+1D61A", "U+1D61B", "U+1D61C", "U+1D61D", "U+1D61E",
      "U+1D61F", "U+1D620", "U+1D621", "U+1D63C", "U+1D63D", "U+1D63E", "U+1D63F", "U+1D640",
      "U+1D641", "U+1D642", "U+1D643", "U+1D644", "U+1D645", "U+1D646", "U+1D647", "U+1D648",
      "U+1D649", "U+1D64A", "U+1D64B", "U+1D64C", "U+1D64D", "U+1D64E", "U+1D64F", "U+1D650",
      "U+1D651", "U+1D652", "U+1D653", "U+1D654", "U+1D655", "U+1D670", "U+1D671", "U+1D672",
      "U+1D673", "U+1D674", "U+1D675", "U+1D676", "U+1D677", "U+1D678", "U+1D679", "U+1D67A",
      "U+1D67B", "U+1D67C", "U+1D67D", "U+1D67E", "U+1D67F", "U+1D680", "U+1D681", "U+1D682",
      "U+1D683", "U+1D684", "U+1D685", "U+1D686", "U+1D687", "U+1D688", "U+1D689", "U+1D6A8",
      "U+1D6A9", "U+1D6AA", "U+1D6AB", "U+1D6AC", "U+1D6AD", "U+1D6AE", "U+1D6AF", "U+1D6B0",
      "U+1D6B1", "U+1D6B2", "U+1D6B3", "U+1D6B4", "U+1D6B5", "U+1D6B6", "U+1D6B7", "U+1D6B8",
      "U+1D6B9", "U+1D6BA", "U+1D6BB", "U+1D6BC", "U+1D6BD", "U+1D6BE", "U+1D6BF", "U+1D6C0",
      "U+1D6E2", "U+1D6E3", "U+1D6E4", "U+1D6E5", "U+1D6E6", "U+1D6E7", "U+1D6E8", "U+1D6E9",
      "U+1D6EA", "U+1D6EB", "U+1D6EC", "U+1D6ED", "U+1D6EE", "U+1D6EF", "U+1D6F0", "U+1D6F1",
      "U+1D6F2", "U+1D6F3", "U+1D6F4", "U+1D6F5", "U+1D6F6", "U+1D6F7", "U+1D6F8", "U+1D6F9",
      "U+1D6FA", "U+1D71C", "U+1D71D", "U+1D71E", "U+1D71F", "U+1D720", "U+1D721", "U+1D722",
      "U+1D723", "U+1D724", "U+1D725", "U+1D726", "U+1D727", "U+1D728", "U+1D729", "U+1D72A",
      "U+1D72B", "U+1D72C", "U+1D72D", "U+1D72E", "U+1D72F", "U+1D730", "U+1D731", "U+1D732",
      "U+1D733", "U+1D734", "U+1D756", "U+1D757", "U+1D758", "U+1D759", "U+1D75A", "U+1D75B",
      "U+1D75C", "U+1D75D", "U+1D75E", "U+1D75F", "U+1D760", "U+1D761", "U+1D762", "U+1D763",
      "U+1D764", "U+1D765", "U+1D766", "U+1D767", "U+1D768", "U+1D769", "U+1D76A", "U+1D76B",
      "U+1D76C", "U+1D76D", "U+1D76E", "U+1D790", "U+1D791", "U+1D792", "U+1D793", "U+1D794",
      "U+1D795", "U+1D796", "U+1D797", "U+1D798", "U+1D799", "U+1D79A", "U+1D79B", "U+1D79C",
      "U+1D79D", "U+1D79E", "U+1D79F", "U+1D7A0", "U+1D7A1", "U+1D7A2", "U+1D7A3", "U+1D7A4",
      "U+1D7A5", "U+1D7A6", "U+1D7A7", "U+1D7A8", "U+1D7CA", "U+1E900", "U+1E901", "U+1E902",
      "U+1E903", "U+1E904", "U+1E905", "U+1E906", "U+1E907", "U+1E908", "U+1E909", "U+1E90A",
      "U+1E90B", "U+1E90C", "U+1E90D", "U+1E90E", "U+1E90F", "U+1E910", "U+1E911", "U+1E912",
      "U+1E913", "U+1E914", "U+1E915", "U+1E916", "U+1E917", "U+1E918", "U+1E919", "U+1E91A",
      "U+1E91B", "U+1E91C", "U+1E91D", "U+1E91E", "U+1E91F", "U+1E920", "U+1E921", "U+1F130",
      "U+1F131", "U+1F132", "U+1F133", "U+1F134", "U+1F135", "U+1F136", "U+1F137", "U+1F138",
      "U+1F139", "U+1F13A", "U+1F13B", "U+1F13C", "U+1F13D", "U+1F13E", "U+1F13F", "U+1F140",
      "U+1F141", "U+1F142", "U+1F143", "U+1F144", "U+1F145", "U+1F146", "U+1F147", "U+1F148",
      "U+1F149", "U+1F150", "U+1F151", "U+1F152", "U+1F153", "U+1F154", "U+1F155", "U+1F156",
      "U+1F157", "U+1F158", "U+1F159", "U+1F15A", "U+1F15B", "U+1F15C", "U+1F15D", "U+1F15E",
      "U+1F15F", "U+1F160", "U+1F161", "U+1F162", "U+1F163", "U+1F164", "U+1F165", "U+1F166",
      "U+1F167", "U+1F168", "U+1F169", "U+1F170", "U+1F171", "U+1F172", "U+1F173", "U+1F174",
      "U+1F175", "U+1F176", "U+1F177", "U+1F178", "U+1F179", "U+1F17A", "U+1F17B", "U+1F17C",
      "U+1F17D", "U+1F17E", "U+1F17F", "U+1F180", "U+1F181", "U+1F182", "U+1F183", "U+1F184",
      "U+1F185", "U+1F186", "U+1F187", "U+1F188", "U+1F189" }

\* The characters outside ASCII with c.islower().
LowercaseChars ==
    { "U+00AA", "U+00B5", "U+00BA", "U+00DF", "U+00E0", "U+00E1", "U+00E2", "U+00E3",
      "U+00E4", "U+00E5", "U+00E6", "U+00E7", "U+00E8", "U+00E9", "U+00EA", "U+00EB",
      "U+00EC", "U+00ED", "U+00EE", "U+00EF", "U+00F0", "U+00F1", "U+00F2", "U+00F3",
      "U+00F4", "U+00F5", "U+00F6", "U+00F8", "U+00F9", "U+00FA", "U+00FB", "U+00FC",
      "U+00FD", "U+00FE", "U+00FF", "U+0101", "U+0103", "U+0105", "U+0107", "U+0109",
      "U+010B", "U+010D", "U+010F", "U+0111", "U+0113", "U+0115", "U+0117", "U+0119",
      "U+011B", "U+011D", "U+011F", "U+0121", "U+0123", "U+0125", "U+0127", "U+0129",
      "U+012B", "U+012D", "U+012F", "U+0131", "U+0133", "U+0135", "U+0137", "U+0138",
      "U+013A", "U+013C", "U+013E", "U+0140", "U+0142", "U+0144", "U+0146", "U+0148",
      "U+0149", "U+014B", "U+014D", "U+014F", "U+0151", "U+0153", "U+0155", "U+0157",
      "U+0159", "U+015B", "U+015D", "U+015F", "U+0161", "U+0163", "U+0165", "U+0167",
      "U+0169", "U+016B", "U+016D", "U+016F", "U+0171", "U+0173", "U+0175", "U+0177",
      "U+017A", "U+017C", "U+017E", "U+017F", "U+0180", "U+0183", "U+0185", "U+0188",
      "U+018C", "U+018D", "U+0192", "U+0195", "U+0199", "U+019A", "U+019B", "U+019E",
      "U+01A1", "U+01A3", "U+01A5", "U+01A8", "U+01AA", "U+01AB", "U+01AD", "U+01B0",
      "U+01B4", "U+01B6", "U+01B9", "U+01BA", "U+01BD", "U+01BE", "U+01BF", "U+01C6",
      "U+01C9", "U+01CC", "U+01CE", "U+01D0", "U+01D2", "U+01D4", "U+01D6", "U+01D8",
      "U+01DA", "U+01DC", "U+01DD", "U+01DF", "U+01E1", "U+01E3", "U+01E5", "U+01E7",
      "U+01E9", "U+01EB", "U+01ED", "U+01EF", "U+01F0", "U+01F3", "U+01F5", "U+01F9",
      "U+01FB", "U+01FD", "U+01FF", "U+0201", "U+0203", "U+0205", "U+0207", "U+0209",
      "U+020B", "U+020D", "U+020F", "U+0211", "U+0213", "U+0215", "U+0217", "U+0219",
      "U+021B", "U+021D", "U+021F", "U+0221", "U+0223", "U+0225", "U+0227", "U+0229",
      "U+022B", "U+022D", "U+022F", "U+0231", "U+0233", "U+0234", "U+0235", "U+0236",
      "U+0237", "U+0238", "U+0239", "U+023C", "U+023F", "U+0240", "U+0242", "U+0247",
      "U+0249", "U+024B", "U+024D", "U+024F", "U+0250", "U+0251", "U+0252", "U+0253",
      "U+0254", "U+0255", "U+0256", "U+0257", "U+0258", "U+0259", "U+025A", "U+025B",
      "U+025C", "U+025D", "U+025E", "U+025F", "U+0260", "U+0261", "U+0262", "U+0263",
      "U+0264", "U+0265", "U+0266", "U+0267", "U+0268", "U+0269", "U+026A", "U+026B",
      "U+026C", "U+026D", "U+026E", "U+026F", "U+0270", "U+0271", "U+0272", "U+0273",
      "U+0274", "U+0275", "U+0276", "U+0277", "U+0278", "U+0279", "U+027A", "U+027B",
      "U+027C", "U+027D", "U+027E", "U+027F", "U+0280", "U+0281", "U+0282", "U+0283",
      "U+0284", "U+0285", "U+0286", "U+0287", "U+0288", "U+0289", "U+028A", "U+028B",
      "U+028C", "U+028D", "U+028E", "U+028F", "U+0290", "U+0291", "U+0292", "U+0293",
      "U+0295", "U+0296", "U+0297", "U+0298", "U+0299", "U+029A", "U+029B", "U+029C",
      "U+029D", "U+029E", "U+029F", "U+02A0", "U+02A1", "U+02A2", "U+02A3", "U+02A4",
      "U+02A5", "U+02A6", "U+02A7", "U+02A8", "U+02A9", "U+02AA", "U+02AB", "U+02AC",
      "U+02AD", "U+02AE", "U+02AF", "U+02B0", "U+02B1", "U+02B2", "U+02B3", "U+02B4",
      "U+02B5", "U+02B6", "U+02B7", "U+02B8", "U+02C0", "U+02C1", "U+02E0", "U+02E1",
      "U+02E2", "U+02E3", "U+02E4", "U+0345", "U+0371", "U+0373", "U+0377", "U+037A",
      "U+037B", "U+037C", "U+037D", "U+0390", "U+03AC", "U+03AD", "U+03AE", "U+03AF",
      "U+03B0", "U+03B1", "U+03B2", "U+03B3", "U+03B4", "U+03B5", "U+03B6", "U+03B7",
      "U+03B8", "U+03B9", "U+03BA", "U+03BB", "U+03BC", "U+03BD", "U+03BE", "U+03BF",
      "U+03C0", "U+03C1", "U+03C2", "U+03C3", "U+03C4", "U+03C5", "U+03C6", "U+03C7",
      "U+03C8", "U+03C9", "U+03CA", "U+03CB", "U+03CC", "U+03CD", "U+03CE", "U+03D0",
      "U+03D1", "U+03D5", "U+03D6", "U+03D7", "U+03D9", "U+03DB", "U+03DD", "U+03DF",
      "U+03E1", "U+03E3", "U+03E5", "U+03E7", "U+03E9", "U+03EB", "U+03ED", "U+03EF",
      "U+03F0", "U+03F1", "U+03F2", "U+03F3", "U+03F5", "U+03F8", "U+03FB", "U+03FC",
      "U+0430", "U+0431", "U+0432", "U+0433", "U+0434", "U+0435", "U+0436", "U+0437",
      "U+0438", "U+0439", "U+043A", "U+043B", "U+043C", "U+043D", "U+043E", "U+043F",
      "U+0440", "U+0441", "U+0442", "U+0443", "U+0444", "U+0445", "U+0446", "U+0447",
      "U+0448", "U+0449", "U+044A", "U+044B", "U+044C", "U+044D", "U+044E", "U+044F",
      "U+0450", "U+0451", "U+0452", "U+0453", "U+0454", "U+0455", "U+0456", "U+0457",
      "U+0458", "U+0459", "U+045A", "U+045B", "U+045C", "U+045D", "U+045E", "U+045F",
      "U+0461", "U+0463", "U+0465", "U+0467", "U+0469", "U+046B", "U+046D", "U+046F",
      "U+0471", "U+0473", "U+0475", "U+0477", "U+0479", "U+047B", "U+047D", "U+047F",
      "U+0481", "U+048B", "U+048D", "U+048F", "U+0491", "U+0493", "U+0495", "U+0497",
      "U+0499", "U+049B", "U+049D", "U+049F", "U+04A1", "U+04A3", "U+04A5", "U+04A7",
      "U+04A9", "U+04AB", "U+04AD", "U+04AF", "U+04B1", "U+04B3", "U+04B5", "U+04B7",
      "U+04B9", "U+04BB", "U+04BD", "U+04BF", "U+04C2", "U+04C4", "U+04C6", "U+04C8",
      "U+04CA", "U+04CC", "U+04CE", "U+04CF", "U+04D1", "U+04D3", "U+04D5", "U+04D7",
      "U+04D9", "U+04DB", "U+04DD", "U+04DF", "U+04E1", "U+04E3", "U+04E5", "U+04E7",
      "U+04E9", "U+04EB", "U+04ED", "U+04EF", "U+04F1", "U+04F3", "U+04F5", "U+04F7",
      "U+04F9", "U+04FB", "U+04FD", "U+04FF", "U+0501", "U+0503", "U+0505", "U+0507",
      "U+0509", "U+050B", "U+050D", "U+050F", "U+0511", "U+0513", "U+0515", "U+0517",
      "U+0519", "U+051B", "U+051D", "U+051F", "U+0521", "U+0523", "U+0525", "U+0527",
      "U+0529", "U+052B", "U+052D", "U+052F", "U+0560", "U+0561", "U+0562", "U+0563",
      "U+0564", "U+0565", "U+0566", "U+0567", "U+0568", "U+0569", "U+056A", "U+056B",
      "U+056C", "U+056D", "U+056E", "U+056F", "U+0570", "U+0571", "U+0572", "U+0573",
      "U+0574", "U+0575", "U+0576", "U+0577", "U+0578", "U+0579", "U+057A", "U+057B",
      "U+057C", "U+057D", "U+057E", "U+057F", "U+0580", "U+0581", "U+0582", "U+0583",
      "U+0584", "U+0585", "U+0586", "U+0587", "U+0588", "U+10D0", "U+10D1", "U+10D2",
      "U+10D3", "U+10D4", "U+10D5", "U+10D6", "U+10D7", "U+10D8", "U+10D9", "U+10DA",
      "U+10DB", "U+10DC", "U+10DD", "U+10DE", "U+10DF", "U+10E0", "U+10E1", "U+10E2",
      "U+10E3", "U+10E4", "U+10E5", "U+10E6", "U+10E7", "U+10E8", "U+10E9", "U+10EA",
      "U+10EB", "U+10EC", "U+10ED", "U+10EE", "U+10EF", "U+10F0", "U+10F1", "U+10F2",
      "U+10F3", "U+10F4", "U+10F5", "U+10F6", "U+10F7", "U+10F8", "U+10F9", "U+10FA",
      "U+10FD", "U+10FE", "U+10FF", "U+13F8", "U+13F9", "U+13FA", "U+13FB", "U+13FC",
      "U+13FD", "U+1C80", "U+1C81", "U+1C82", "U+1C83", "U+1C84", "U+1C85", "U+1C86",
      "U+1C87", "U+1C88", "U+1D00", "U+1D01", "U+1D02", "U+1D03", "U+1D04", "U+1D05",
      "U+1D06", "U+1D07", "U+1D08", "U+1D09", "U+1D0A", "U+1D0B", "U+1D0C", "U+1D0D",
      "U+1D0E", "U+1D0F", "U+1D10", "U+1D11", "U+1D12", "U+1D13", "U+1D14", "U+1D15",
      "U+1D16", "U+1D17", "U+1D18", "U+1D19", "U+1D1A", "U+1D1B", "U+1D1C", "U+1D1D",
      "U+1D1E", "U+1D1F", "U+1D20", "U+1D21", "U+1D22", "U+1D23", "U+1D24", "U+1D25",
      "U+1D26", "U+1D27", "U+1D28", "U+1D29", "U+1D2A", "U+1D2B", "U+1D2C", "U+1D2D",
      "U+1D2E", "U+1D2F", "U+1D30", "U+1D31", "U+1D32", "U+1D33", "U+1D34", "U+1D35",
      "U+1D36", "U+1D37", "U+1D38", "U+1D39", "U+1D3A", "U+1D3B", "U+1D3C", "U+1D3D",
      "U+1D3E", "U+1D3F", "U+1D40", "U+1D41", "U+1D42", "U+1D43", "U+1D44", "U+1D45",
      "U+1D46", "U+1D47", "U+1D48", "U+1D49", "U+1D4A", "U+1D4B", "U+1D4C", "U+1D4D",
      "U+1D4E", "U+1D4F", "U+1D50", "U+1D51", "U+1D52", "U+1D53", "U+1D54", "U+1D55",
      "U+1D56", "U+1D57", "U+1D58", "U+1D59", "U+1D5A", "U+1D5B", "U+1D5C", "U+1D5D",
      "U+1D5E", "U+1D5F", "U+1D60", "U+1D61", "U+1D62", "U+1D63", "U+1D64", "U+1D65",
      "U+1D66", "U+1D67", "U+1D68", "U+1D69", "U+1D6A", "U+1D6B", "U+1D6C", "U+1D6D",
      "U+1D6E", "U+1D6F", "U+1D70", "U+1D71", "U+1D72", "U+1D73", "U+1D74", "U+1D75",
      "U+1D76", "U+1D77", "U+1D78", "U+1D79", "U+1D7A", "U+1D7B", "U+1D7C", "U+1D7D",
      "U+1D7E", "U+1D7F", "U+1D80", "U+1D81", "U+1D82", "U+1D83", "U+1D84", "U+1D85",
      "U+1D86", "U+1D87", "U+1D88", "U+1D89", "U+1D8A", "U+1D8B", "U+1D8C", "U+1D8D",
      "U+1D8E", "U+1D8F", "U+1D90", "U+1D91", "U+1D92", "U+1D93", "U+1D94", "U+1D95",
      "U+1D96", "U+1D97", "U+1D98", "U+1D99", "U+1D9A", "U+1D9B", "U+1D9C", "U+1D9D",
      "U+1D9E", "U+1D9F", "U+1DA0", "U+1DA1", "U+1DA2", "U+1DA3", "U+1DA4", "U+1DA5",
      "U+1DA6", "U+1DA7", "U+1DA8", "U+1DA9", "U+1DAA", "U+1DAB", "U+1DAC", "U+1DAD",
      "U+1DAE", "U+1DAF", "U+1DB0", "U+1DB1", "U+1DB2", "U+1DB3", "U+1DB4", "U+1DB5",
      "U+1DB6", "U+1DB7", "U+1DB8", "U+1DB9", "U+1DBA", "U+1DBB", "U+1DBC", "U+1DBD",
      "U+1DBE", "U+1DBF", "U+1E01", "U+1E03", "U+1E05", "U+1E07", "U+1E09", "U+1E0B",
      "U+1E0D", "U+1E0F", "U+1E11", "U+1E13", "U+1E15", "U+1E17", "U+1E19", "U+1E1B",
      "U+1E1D", "U+1E1F", "U+1E21", "U+1E23", "U+1E25", "U+1E27", "U+1E29", "U+1E2B",
      "U+1E2D", "U+1E2F", "U+1E31", "U+1E33", "U+1E35", "U+1E37", "U+1E39", "U+1E3B",
      "U+1E3D", "U+1E3F", "U+1E41", "U+1E43", "U+1E45", "U+1E47", "U+1E49", "U+1E4B",
      "U+1E4D", "U+1E4F", "U+1E51", "U+1E53", "U+1E55", "U+1E57", "U+1E59", "U+1E5B",
      "U+1E5D", "U+1E5F", "U+1E61", "U+1E63", "U+1E65", "U+1E67", "U+1E69", "U+1E6B",
      "U+1E6D", "U+1E6F", "U+1E71", "U+1E73", "U+1E75", "U+1E77", "U+1E79", "U+1E7B",
      "U+1E7D", "U+1E7F", "U+1E81", "U+1E83", "U+1E85", "U+1E87", "U+1E89", "U+1E8B",
      "U+1E8D", "U+1E8F", "U+1E91", "U+1E93", "U+1E95", "U+1E96", "U+1E97", "U+1E98",
      "U+1E99", "U+1E9A", "U+1E9B", "U+1E9C", "U+1E9D", "U+1E9F", "U+1EA1", "U+1EA3",
      "U+1EA5", "U+1EA7", "U+1EA9", "U+1EAB", "U+1EAD", "U+1EAF", "U+1EB1", "U+1EB3",
      "U+1EB5", "U+1EB7", "U+1EB9", "U+1EBB", "U+1EBD", "U+1EBF", "U+1EC1", "U+1EC3",
      "U+1EC5", "U+1EC7", "U+1EC9", "U+1ECB", "U+1ECD", "U+1ECF", "U+1ED1", "U+1ED3",
      "U+1ED5", "U+1ED7", "U+1ED9", "U+1EDB", "U+1EDD", "U+1EDF", "U+1EE1", "U+1EE3",
      "U+1EE5", "U+1EE7", "U+1EE9", "U+1EEB", "U+1EED", "U+1EEF", "U+1EF1", "U+1EF3",
      "U+1EF5", "U+1EF7", "U+1EF9", "U+1EFB", "U+1EFD", "U+1EFF", "U+1F00", "U+1F01",
      "U+1F02", "U+1F03", "U+1F04", "U+1F05", "U+1F06", "U+1F07", "U+1F10", "U+1F11",
      "U+1F12", "U+1F13", "U+1F14", "U+1F15", "U+1F20", "U+1F21", "U+1F22", "U+1F23",
      "U+1F24", "U+1F25", "U+1F26", "U+1F27", "U+1F30", "U+1F31", "U+1F32", "U+1F33",
      "U+1F34", "U+1F35", "U+1F36", "U+1F37", "U+1F40", "U+1F41", "U+1F42", "U+1F43",
      "U+1F44", "U+1F45", "U+1F50", "U+1F51", "U+1F52", "U+1F53", "U+1F54", "U+1F55",
      "U+1F56", "U+1F57", "U+1F60", "U+1F61", "U+1F62", "U+1F63", "U+1F64", "U+1F65",
      "U+1F66", "U+1F67", "U+1F70", "U+1F71", "U+1F72", "U+1F73", "U+1F74", "U+1F75",
      "U+1F76", "U+1F77", "U+1F78", "U+1F79", "U+1F7A", "U+1F7B", "U+1F7C", "U+1F7D",
      "U+1F80", "U+1F81", "U+1F82", "U+1F83", "U+1F84", "U+1F85", "U+1F86", "U+1F87",
      "U+1F90", "U+1F91", "U+1F92", "U+1F93", "U+1F94", "U+1F95", "U+1F96", "U+1F97",
      "U+1FA0", "U+1FA1", "U+1FA2", "U+1FA3", "U+1FA4", "U+1FA5", "U+1FA6", "U+1FA7",
      "U+1FB0", "U+1FB1", "U+1FB2", "U+1FB3", "U+1FB4", "U+1FB6", "U+1FB7", "U+1FBE",
      "U+1FC2", "U+1FC3", "U+1FC4", "U+1FC6", "U+1FC7", "U+1FD0", "U+1FD1", "U+1FD2",
      "U+1FD3", "U+1FD6", "U+1FD7", "U+1FE0", "U+1FE1", "U+1FE2", "U+1FE3", "U+1FE4",
      "U+1FE5", "U+1FE6", "U+1FE7", "U+1FF2", "U+1FF3", "U+1FF4", "U+1FF6", "U+1FF7",
      "U+2071", "U+207F", "U+2090", "U+2091", "U+2092", "U+2093", "U+2094", "U+2095",
      "U+2096", "U+2097", "U+2098", "U+2099", "U+209A", "U+209B", "U+209C", "U+210A",
      "U+210E", "U+210F", "U+2113", "U+212F", "U+2134", "U+2139", "U+213C", "U+213D",
      "U+2146", "U+2147", "U+2148", "U+2149", "U+214E", "U+2170", "U+2171", "U+2172",
      "U+2173", "U+2174", "U+2175", "U+2176", "U+2177", "U+2178", "U+2179", "U+217A",
      "U+217B", "U+217C", "U+217D", "U+217E", "U+217F", "U+2184", "U+24D0", "U+24D1",
      "U+24D2", "U+24D3", "U+24D4", "U+24D5", "U+24D6", "U+24D7", "U+24D8", "U+24D9",
      "U+24DA", "U+24DB", "U+24DC", "U+24DD", "U+24DE", "U+24DF", "U+24E0", "U+24E1",
      "U+24E2", "U+24E3", "U+24E4", "U+24E5", "U+24E6", "U+24E7", "U+24E8", "U+24E9",
      "U+2C30", "U+2C31", "U+2C32", "U+2C33", "U+2C34", "U+2C35", "U+2C36", "U+2C37",
      "U+2C38", "U+2C39", "U+2C3A", "U+2C3B", "U+2C3C", "U+2C3D", "U+2C3E", "U+2C3F",
      "U+2C40", "U+2C41", "U+2C42", "U+2C43", "U+2C44", "U+2C45", "U+2C46", "U+2C47",
      "U+2C48", "U+2C49", "U+2C4A", "U+2C4B", "U+2C4C", "U+2C4D", "U+2C4E", "U+2C4F",
      "U+2C50", "U+2C51", "U+2C52", "U+2C53", "U+2C54", "U+2C55", "U+2C56", "U+2C57",
      "U+2C58", "U+2C59", "U+2C5A", "U+2C5B", "U+2C5C", "U+2C5D", "U+2C5E", "U+2C5F",
      "U+2C61", "U+2C65", "U+2C66", "U+2C68", "U+2C6A", "U+2C6C", "U+2C71", "U+2C73",
      "U+2C74", "U+2C76", "U+2C77", "U+2C78", "U+2C79", "U+2C7A", "U+2C7B", "U+2C7C",
      "U+2C7D", "U+2C81", "U+2C83", "U+2C85", "U+2C87", "U+2C89", "U+2C8B", "U+2C8D",
      "U+2C8F", "U+2C91", "U+2C93", "U+2C95", "U+2C97", "U+2C99", "U+2C9B", "U+2C9D",
      "U+2C9F", "U+2CA1", "U+2CA3", "U+2CA5", "U+2CA7", "U+2CA9", "U+2CAB", "U+2CAD",
      "U+2CAF", "U+2CB1", "U+2CB3", "U+2CB5", "U+2CB7", "U+2CB9", "U+2CBB", "U+2CBD",
      "U+2CBF", "U+2CC1", "U+2CC3", "U+2CC5", "U+2CC7", "U+2CC9", "U+2CCB", "U+2CCD",
      "U+2CCF", "U+2CD1", "U+2CD3", "U+2CD5", "U+2CD7", "U+2CD9", "U+2CDB", "U+2CDD",
      "U+2CDF", "U+2CE1", "U+2CE3", "U+2CE4", "U+2CEC", "U+2CEE", "U+2CF3", "U+2D00",
      "U+2D01", "U+2D02", "U+2D03", "U+2D04", "U+2D05", "U+2D06", "U+2D07", "U+2D08",
      "U+2D09", "U+2D0A", "U+2D0B", "U+2D0C", "U+2D0D", "U+2D0E", "U+2D0F", "U+2D10",
      "U+2D11", "U+2D12", "U+2D13", "U+2D14", "U+2D15", "U+2D16", "U+2D17", "U+2D18",
      "U+2D19", "U+2D1A", "U+2D1B", "U+2D1C", "U+2D1D", "U+2D1E", "U+2D1F", "U+2D20",
      "U+2D21", "U+2D22", "U+2D23", "U+2D24", "U+2D25", "U+2D27", "U+2D2D", "U+A641",
      "U+A643", "U+A645", "U+A647", "U+A649", "U+A64B", "U+A64D", "U+A64F", "U+A651",
      "U+A653", "U+A655", "U+A657", "U+A659", "U+A65B", "U+A65D", "U+A65F", "U+A661",
      "U+A663", "U+A665", "U+A667", "U+A669", "U+A66B", "U+A66D", "U+A681", "U+A683",
      "U+A685", "U+A687", "U+A689", "U+A68B", "U+A68D", "U+A68F", "U+A691", "U+A693",
      "U+A695", "U+A697", "U+A699", "U+A69B", "U+A69C", "U+A69D", "U+A723", "U+A725",
      "U+A727", "U+A729", "U+A72B", "U+A72D", "U+A72F", "U+A730", "U+A731", "U+A733",
      "U+A735", "U+A737", "U+A739", "U+A73B", "U+A73D", "U+A73F", "U+A741", "U+A743",
      "U+A745", "U+A747", "U+A749", "U+A74B", "U+A74D", "U+A74F", "U+A751", "U+A753",
      "U+A755", "U+A757", "U+A759", "U+A75B", "U+A75D", "U+A75F", "U+A761", "U+A763",
      "U+A765", "U+A767", "U+A769", "U+A76B", "U+A76D", "U+A76F", "U+A770", "U+A771",
      "U+A772", "U+A773", "U+A774", "U+A775", "U+A776", "U+A777", "U+A778", "U+A77A",
      "U+A77C", "U+A77F", "U+A781", "U+A783", "U+A785", "U+A787", "U+A78C", "U+A78E",
      "U+A791", "U+A793", "U+A794", "U+A795", "U+A797", "U+A799", "U+A79B", "U+A79D",
      "U+A79F", "U+A7A1", "U+A7A3", "U+A7A5", "U+A7A7", "U+A7A9", "U+A7AF", "U+A7B5",
      "U+A7B7", "U+A7B9", "U+A7BB", "U+A7BD", "U+A7BF", "U+A7C1", "U+A7C3", "U+A7C8",
      "U+A7CA", "U+A7D1", "U+A7D3", "U+A7D5", "U+A7D7", "U+A7D9", "U+A7F6", "U+A7F8",
      "U+A7F9", "U+A7FA", "U+AB30", "U+AB31", "U+AB32", "U+AB33", "U+AB34", "U+AB35",
      "U+AB36", "U+AB37", "U+AB38", "U+AB39", "U+AB3A", "U+AB3B", "U+AB3C", "U+AB3D",
      "U+AB3E", "U+AB3F", "U+AB40", "U+AB41", "U+AB42", "U+AB43", "U+AB44", "U+AB45",
      "U+AB46", "U+AB47", "U+AB48", "U+AB49", "U+AB4A", "U+AB4B", "U+AB4C", "U+AB4D",
      "U+AB4E", "U+AB4F", "U+AB50", "U+AB51", "U+AB52", "U+AB53", "U+AB54", "U+AB55",
      "U+AB56", "U+AB57", "U+AB58", "U+AB59", "U+AB5A", "U+AB5C", "U+AB5D", "U+AB5E",
      "U+AB5F", "U+AB60", "U+AB61", "U+AB62", "U+AB63", "U+AB64", "U+AB65", "U+AB66",
      "U+AB67", "U+AB68", "U+AB70", "U+AB71", "U+AB72", "U+AB73", "U+AB74", "U+AB75",
      "U+AB76", "U+AB77", "U+AB78", "U+AB79", "U+AB7A", "U+AB7B", "U+AB7C", "U+AB7D",
      "U+AB7E", "U+AB7F", "U+AB80", "U+AB81", "U+AB82", "U+AB83", "U+AB84", "U+AB85",
      "U+AB86", "U+AB87", "U+AB88", "U+AB89", "U+AB8A", "U+AB8B", "U+AB8C", "U+AB8D",
      "U+AB8E", "U+AB8F", "U+AB90", "U+AB91", "U+AB92", "U+AB93", "U+AB94", "U+AB95",
      "U+AB96", "U+AB97", "U+AB98", "U+AB99", "U+AB9A", "U+AB9B", "U+AB9C", "U+AB9D",
      "U+AB9E", "U+AB9F", "U+ABA0", "U+ABA1", "U+ABA2", "U+ABA3", "U+ABA4", "U+ABA5",
      "U+ABA6", "U+ABA7", "U+ABA8", "U+ABA9", "U+ABAA", "U+ABAB", "U+ABAC", "U+ABAD",
      "U+ABAE", "U+ABAF", "U+ABB0", "U+ABB1", "U+ABB2", "U+ABB3", "U+ABB4", "U+ABB5",
      "U+ABB6", "U+ABB7", "U+ABB8", "U+ABB9", "U+ABBA", "U+ABBB", "U+ABBC", "U+ABBD",
      "U+ABBE", "U+ABBF", "U+FB00", "U+FB01", "U+FB02", "U+FB03", "U+FB04", "U+FB05",
      "U+FB06", "U+FB13", "U+FB14", "U+FB15", "U+FB16", "U+FB17", "U+FF41", "U+FF42",
      "U+FF43", "U+FF44", "U+FF45", "U+FF46", "U+FF47", "U+FF48", "U+FF49", "U+FF4A",
      "U+FF4B", "U+FF4C", "U+FF4D", "U+FF4E", "U+FF4F", "U+FF50", "U+FF51", "U+FF52",
      "U+FF53", "U+FF54", "U+FF55", "U+FF56", "U+FF57", "U+FF58", "U+FF59", "U+FF5A",
      "U+10428", "U+10429", "U+1042A", "U+1042B", "U+1042C", "U+1042D", "U+1042E", "U+1042F",
      "U+10430", "U+10431", "U+10432", "U+10433", "U+10434", "U+10435", "U+10436", "U+10437",
      "U+10438", "U+10439", "U+1043A", "U+1043B", "U+1043C", "U+1043D", "U+1043E", "U+1043F",
      "U+10440", "U+10441", "U+10442", "U+10443", "U+10444", "U+10445", "U+10446", "U+10447",
      "U+10448", "U+10449", "U+1044A", "U+1044B", "U+1044C", "U+1044D", "U+1044E", "U+1044F",
      "U+104D8", "U+104D9", "U+104DA", "U+104DB", "U+104DC", "U+104DD", "U+104DE", "U+104DF",
      "U+104E0", "U+104E1", "U+104E2", "U+104E3", "U+104E4", "U+104E5", "U+104E6", "U+104E7",
      "U+104E8", "U+104E9", "U+104EA", "U+104EB", "U+104EC", "U+104ED", "U+104EE", "U+104EF",
      "U+104F0", "U+104F1", "U+104F2", "U+104F3", "U+104F4", "U+104F5", "U+104F6", "U+104F7",
      "U+104F8", "U+104F9", "U+104FA", "U+104FB", "U+10597", "U+10598", "U+10599", "U+1059A",
      "U+1059B", "U+1059C", "U+1059D", "U+1059E", "U+1059F", "U+105A0", "U+105A1", "U+105A3",
      "U+105A4", "U+105A5", "U+105A6", "U+105A7", "U+105A8", "U+105A9", "U+105AA", "U+105AB",
      "U+105AC", "U+105AD", "U+105AE", "U+105AF", "U+105B0", "U+105B1", "U+105B3", "U+105B4",
      "U+105B5", "U+105B6", "U+105B7", "U+105B8", "U+105B9", "U+105BB", "U+105BC", "U+10780",
      "U+10783", "U+10784", "U+10785", "U+10787", "U+10788", "U+10789", "U+1078A", "U+1078B",
      "U+1078C", "U+1078D", "U+1078E", "U+1078F", "U+10790", "U+10791", "U+10792", "U+10793",
      "U+10794", "U+10795", "U+10796", "U+10797", "U+10798", "U+10799", "U+1079A", "U+1079B",
      "U+1079C", "U+1079D", "U+1079E", "U+1079F", "U+107A0", "U+107A1", "U+107A2", "U+107A3",
      "U+107A4", "U+107A5", "U+107A6", "U+107A7", "U+107A8", "U+107A9", "U+107AA", "U+107AB",
      "U+107AC", "U+107AD", "U+107AE", "U+107AF", "U+107B0", "U+107B2", "U+107B3", "U+107B4",
      "U+107B5", "U+107B6", "U+107B7", "U+107B8", "U+107B9", "U+107BA", "U+10CC0", "U+10CC1",
      "U+10CC2", "U+10CC3", "U+10CC4", "U+10CC5", "U+10CC6", "U+10CC7", "U+10CC8", "U+10CC9",
      "U+10CCA", "U+10CCB", "U+10CCC", "U+10CCD", "U+10CCE", "U+10CCF", "U+10CD0", "U+10CD1",
      "U+10CD2", "U+10CD3", "U+10CD4", "U+10CD5", "U+10CD6", "U+10CD7", "U+10CD8", "U+10CD9",
      "U+10CDA", "U+10CDB", "U+10CDC", "U+10CDD", "U+10CDE", "U+10CDF", "U+10CE0", "U+10CE1",
      "U+10CE2", "U+10CE3", "U+10CE4", "U+10CE5", "U+10CE6", "U+10CE7", "U+10CE8", "U+10CE9",
      "U+10CEA", "U+10CEB", "U+10CEC", "U+10CED", "U+10CEE", "U+10CEF", "U+10CF0", "U+10CF1",
      "U+10CF2", "U+118C0", "U+118C1", "U+118C2", "U+118C3", "U+118C4", "U+118C5", "U+118C6",
      "U+118C7", "U+118C8", "U+118C9", "U+118CA", "U+118CB", "U+118CC", "U+118CD", "U+118CE",
      "U+118CF", "U+118D0", "U+118D1", "U+118D2", "U+118D3", "U+118D4", "U+118D5", "U+118D6",
      "U+118D7", "U+118D8", "U+118D9", "U+118DA", "U+118DB", "U+118DC", "U+118DD", "U+118DE",
      "U+118DF", "U+16E60", "U+16E61", "U+16E62", "U+16E63", "U+16E64", "U+16E65", "U+16E66",
      "U+16E67", "U+16E68", "U+16E69", "U+16E6A", "U+16E6B", "U+16E6C", "U+16E6D", "U+16E6E",
      "U+16E6F", "U+16E70", "U+16E71", "U+16E72", "U+16E73", "U+16E74", "U+16E75", "U+16E76",
      "U+16E77", "U+16E78", "U+16E79", "U+16E7A", "U+16E7B", "U+16E7C", "U+16E7D", "U+16E7E",
      "U+16E7F", "U+1D41A", "U+1D41B", "U+1D41C", "U+1D41D", "U+1D41E", "U+1D41F", "U+1D420",
      "U+1D421", "U+1D422", "U+1D423", "U+1D424", "U+1D425", "U+1D426", "U+1D427", "U+1D428",
      "U+1D429", "U+1D42A", "U+1D42B", "U+1D42C", "U+1D42D", "U+1D42E", "U+1D42F", "U+1D430",
      "U+1D431", "U+1D432", "U+1D433", "U+1D44E", "U+1D44F", "U+1D450", "U+1D451", "U+1D452",
      "U+1D453", "U+1D454", "U+1D456", "U+1D457", "U+1D458", "U+1D459", "U+1D45A", "U+1D45B",
      "U+1D45C", "U+1D45D", "U+1D45E", "U+1D45F", "U+1D460", "U+1D461", "U+1D462", "U+1D463",
      "U+1D464", "U+1D465", "U+1D466", "U+1D467", "U+1D482", "U+1D483", "U+1D484", "U+1D485",
      "U+1D486", "U+1D487", "U+1D488", "U+1D489", "U+1D48A", "U+1D48B", "U+1D48C", "U+1D48D",
      "U+1D48E", "U+1D48F", "U+1D490", "U+1D491", "U+1D492", "U+1D493", "U+1D494", "U+1D495",
      "U+1D496", "U+1D497", "U+1D498", "U+1D499", "U+1D49A", "U+1D49B", "U+1D4B6", "U+1D4B7",
      "U+1D4B8", "U+1D4B9", "U+1D4BB", "U+1D4BD", "U+1D4BE", "U+1D4BF", "U+1D4C0", "U+1D4C1",
      "U+1D4C2", "U+1D4C3", "U+1D4C5", "U+1D4C6", "U+1D4C7", "U+1D4C8", "U+1D4C9", "U+1D4CA",
      "U+1D4CB", "U+1D4CC", "U+1D4CD", "U+1D4CE", "U+1D4CF", "U+1D4EA", "U+1D4EB", "U+1D4EC",
      "U+1D4ED", "U+1D4EE", "U+1D4EF", "U+1D4F0", "U+1D4F1", "U+1D4F2", "U+1D4F3", "U+1D4F4",
      "U+1D4F5", "U+1D4F6", "U+1D4F7", "U+1D4F8", "U+1D4F9", "U+1D4FA", "U+1D4FB", "U+1D4FC",
      "U+1D4FD", "U+1D4FE", "U+1D4FF", "U+1D500", "U+1D501", "U+1D502", "U+1D503", "U+1D51E",
      "U+1D51F", "U+1D520", "U+1D521", "U+1D522", "U+1D523", "U+1D524", "U+1D525", "U+1D526",
      "U+1D527", "U+1D528", "U+1D529", "U+1D52A", "U+1D52B", "U+1D52C", "U+1D52D", "U+1D52E",
      "U+1D52F", "U+1D530", "U+1D531", "U+1D532", "U+1D533", "U+1D534", "U+1D535", "U+1D536",
      "U+1D537", "U+1D552", "U+1D553", "U+1D554", "U+1D555", "U+1D556", "U+1D557", "U+1D558",
      "U+1D559", "U+1D55A", "U+1D55B", "U+1D55C", "U+1D55D", "U+1D55E", "U+1D55F", "U+1D560",
      "U+1D561", "U+1D562", "U+1D563", "U+1D564", "U+1D565", "U+1D566", "U+1D567", "U+1D568",
      "U+1D569", "U+1D56A", "U+1D56B", "U+1D586", "U+1D587", "U+1D588", "U+1D589", "U+1D58A",
      "U+1D58B", "U+1D58C", "U+1D58D", "U+1D58E", "U+1D58F", "U+1D590", "U+1D591", "U+1D592",
      "U+1D593", "U+1D594", "U+1D595", "U+1D596", "U+1D597", "U+1D598", "U+1D599", "U+1D59A",
      "U+1D59B", "U+1D59C", "U+1D59D", "U+1D59E", "U+1D59F", "U+1D5BA", "U+1D5BB", "U+1D5BC",
      "U+1D5BD", "U+1D5BE", "U+1D5BF", "U+1D5C0", "U+1D5C1", "U+1D5C2", "U+1D5C3", "U+1D5C4",
      "U+1D5C5", "U+1D5C6", "U+1D5C7", "U+1D5C8", "U+1D5C9", "U+1D5CA", "U+1D5CB", "U+1D5CC",
      "U+1D5CD", "U+1D5CE", "U+1D5CF", "U+1D5D0", "U+1D5D1", "U+1D5D2", "U+1D5D3", "U+1D5EE",
      "U+1D5EF", "U+1D5F0", "U+1D5F1", "U+1D5F2", "U+1D5F3", "U+1D5F4", "U+1D5F5", "U+1D5F6",
      "U+1D5F7", "U+1D5F8", "U+1D5F9", "U+1D5FA", "U+1D5FB", "U+1D5FC", "U+1D5FD", "U+1D5FE",
      "U+1D5FF", "U+1D600", "U+1D601", "U+1D602", "U+1D603", "U+1D604", "U+1D605", "U+1D606",
      "U+1D607", "U+1D622", "U+1D623", "U+1D624", "U+1D625", "U+1D626", "U+1D627", "U+1D628",
      "U+1D629", "U+1D62A", "U+1D62B", "U+1D62C", "U+1D62D", "U+1D62E", "U+1D62F", "U+1D630",
      "U+1D631", "U+1D632", "U+1D633", "U+1D634", "U+1D635", "U+1D636", "U+1D637", "U+1D638",
      "U+1D639", "U+1D63A", "U+1D63B", "U+1D656", "U+1D657", "U+1D658", "U+1D659", "U+1D65A",
      "U+1D65B", "U+1D65C", "U+1D65D", "U+1D65E", "U+1D65F", "U+1D660", "U+1D661", "U+1D662",
      "U+1D663", "U+1D664", "U+1D665", "U+1D666", "U+1D667", "U+1D668", "U+1D669", "U+1D66A",
      "U+1D66B", "U+1D66C", "U+1D66D", "U+1D66E", "U+1D66F", "U+1D68A", "U+1D68B", "U+1D68C",
      "U+1D68D", "U+1D68E", "U+1D68F", "U+1D690", "U+1D691", "U+1D692", "U+1D693", "U+1D694",
      "U+1D695", "U+1D696", "U+1D697", "U+1D698", "U+1D699", "U+1D69A", "U+1D69B", "U+1D69C",
      "U+1D69D", "U+1D69E", "U+1D69F", "U+1D6A0", "U+1D6A1", "U+1D6A2", "U+1D6A3", "U+1D6A4",
      "U+1D6A5", "U+1D6C2", "U+1D6C3", "U+1D6C4", "U+1D6C5", "U+1D6C6", "U+1D6C7", "U+1D6C8",
      "U+1D6C9", "U+1D6CA", "U+1D6CB", "U+1D6CC", "U+1D6CD", "U+1D6CE", "U+1D6CF", "U+1D6D0",
      "U+1D6D1", "U+1D6D2", "U+1D6D3", "U+1D6D4", "U+1D6D5", "U+1D6D6", "U+1D6D7", "U+1D6D8",
      "U+1D6D9", "U+1D6DA", "U+1D6DC", "U+1D6DD", "U+1D6DE", "U+1D6DF", "U+1D6E0", "U+1D6E1",
      "U+1D6FC", "U+1D6FD", "U+1D6FE", "U+1D6FF", "U+1D700", "U+1D701", "U+1D702", "U+1D703",
      "U+1D704", "U+1D705", "U+1D706", "U+1D707", "U+1D708", "U+1D709", "U+1D70A", "U+1D70B",
      "U+1D70C", "U+1D70D", "U+1D70E", "U+1D70F", "U+1D710", "U+1D711", "U+1D712", "U+1D713",
      "U+1D714", "U+1D716", "U+1D717", "U+1D718", "U+1D719", "U+1D71A", "U+1D71B", "U+1D736",
      "U+1D737", "U+1D738", "U+1D739", "U+1D73A", "U+1D73B", "U+1D73C", "U+1D73D", "U+1D73E",
      "U+1D73F", "U+1D740", "U+1D741", "U+1D742", "U+1D743", "U+1D744", "U+1D745", "U+1D746",
      "U+1D747", "U+1D748", "U+1D749", "U+1D74A", "U+1D74B", "U+1D74C", "U+1D74D", "U+1D74E",
      "U+1D750", "U+1D751", "U+1D752", "U+1D753", "U+1D754", "U+1D755", "U+1D770", "U+1D771",
      "U+1D772", "U+1D773", "U+1D774", "U+1D775", "U+1D776", "U+1D777", "U+1D778", "U+1D779",
      "U+1D77A", "U+1D77B", "U+1D77C", "U+1D77D", "U+1D77E", "U+1D77F", "U+1D780", "U+1D781",
      "U+1D782", "U+1D783", "U+1D784", "U+1D785", "U+1D786", "U+1D787", "U+1D788", "U+1D78A",
      "U+1D78B", "U+1D78C", "U+1D78D", "U+1D78E", "U+1D78F", "U+1D7AA", "U+1D7AB", "U+1D7AC",
      "U+1D7AD", "U+1D7AE", "U+1D7AF", "U+1D7B0", "U+1D7B1", "U+1D7B2", "U+1D7B3", "U+1D7B4",
      "U+1D7B5", "U+1D7B6", "U+1D7B7", "U+1D7B8", "U+1D7B9", "U+1D7BA", "U+1D7BB", "U+1D7BC",
      "U+1D7BD", "U+1D7BE", "U+1D7BF", "U+1D7C0", "U+1D7C1", "U+1D7C2", "U+1D7C4", "U+1D7C5",
      "U+1D7C6", "U+1D7C7", "U+1D7C8", "U+1D7C9", "U+1D7CB", "U+1DF00", "U+1DF01", "U+1DF02",
      "U+1DF03", "U+1DF04", "U+1DF05", "U+1DF06", "U+1DF07", "U+1DF08", "U+1DF09", "U+1DF0B",
      "U+1DF0C", "U+1DF0D", "U+1DF0E", "U+1DF0F", "U+1DF10", "U+1DF11", "U+1DF12", "U+1DF13",
      "U+1DF14", "U+1DF15", "U+1DF16", "U+1DF17", "U+1DF18", "U+1DF19", "U+1DF1A", "U+1DF1B",
      "U+1DF1C", "U+1DF1D", "U+1DF1E", "U+1E922", "U+1E923", "U+1E924", "U+1E925", "U+1E926",
      "U+1E927", "U+1E928", "U+1E929", "U+1E92A", "U+1E92B", "U+1E92C", "U+1E92D", "U+1E92E",
      "U+1E92F", "U+1E930", "U+1E931", "U+1E932", "U+1E933", "U+1E934", "U+1E935", "U+1E936",
      "U+1E937", "U+1E938", "U+1E939", "U+1E93A", "U+1E93B", "U+1E93C", "U+1E93D", "U+1E93E",
      "U+1E93F", "U+1E940", "U+1E941", "U+1E942", "U+1E943" }

\* The characters outside ASCII that str.lower counts as cased letters when
\* it looks for a final sigma.
CasedChars ==
    { "U+00AA", "U+00B5", "U+00BA", "U+00C0", "U+00C1", "U+00C2", "U+00C3", "U+00C4",
      "U+00C5", "U+00C6", "U+00C7", "U+00C8", "U+00C9", "U+00CA", "U+00CB", "U+00CC",
      "U+00CD", "U+00CE", "U+00CF", "U+00D0", "U+00D1", "U+00D2", "U+00D3", "U+00D4",
      "U+00D5", "U+00D6", "U+00D8", "U+00D9", "U+00DA", "U+00DB", "U+00DC", "U+00DD",
      "U+00DE", "U+00DF", "U+00E0", "U+00E1", "U+00E2", "U+00E3", "U+00E4", "U+00E5",
      "U+00E6", "U+00E7", "U+00E8", "U+00E9", "U+00EA", "U+00EB", "U+00EC", "U+00ED",
      "U+00EE", "U+00EF", "U+00F0", "U+00F1", "U+00F2", "U+00F3", "U+00F4", "U+00F5",
      "U+00F6", "U+00F8", "U+00F9", "U+00FA", "U+00FB", "U+00FC", "U+00FD", "U+00FE",
      "U+00FF", "U+0100", "U+0101", "U+0102", "U+0103", "U+0104", "U+0105", "U+0106",
      "U+0107", "U+0108", "U+0109", "U+010A", "U+010B", "U+010C", "U+010D", "U+010E",
      "U+010F", "U+0110", "U+0111", "U+0112", "U+0113", "U+0114", "U+0115", "U+0116",
      "U+0117", "U+0118", "U+0119", "U+011A", "U+011B", "U+011C", "U+011D", "U+011E",
      "U+011F", "U+0120", "U+0121", "U+0122", "U+0123", "U+0124", "U+0125", "U+0126",
      "U+0127", "U+0128", "U+0129", "U+012A", "U+012B", "U+012C", "U+012D", "U+012E",
      "U+012F", "U+0130", "U+0131", "U+0132", "U+0133", "U+0134", "U+0135", "U+0136",
      "U+0137", "U+0138", "U+0139", "U+013A", "U+013B", "U+013C", "U+013D", "U+013E",
      "U+013F", "U+0140", "U+0141", "U+0142", "U+0143", "U+0144", "U+0145", "U+0146",
      "U+0147", "U+0148", "U+0149", "U+014A", "U+014B", "U+014C", "U+014D", "U+014E",
      "U+014F", "U+0150", "U+0151", "U+0152", "U+0153", "U+0154", "U+0155", "U+0156",
      "U+0157", "U+0158", "U+0159", "U+015A", "U+015B", "U+015C", "U+015D", "U+015E",
      "U+015F", "U+0160", "U+0161", "U+0162", "U+0163", "U+0164", "U+0165", "U+0166",
      "U+0167", "U+0168", "U+0169", "U+016A", "U+016B", "U+016C", "U+016D", "U+016E",
      "U+016F", "U+0170", "U+0171", "U+0172", "U+0173", "U+0174", "U+0175", "U+0176",
      "U+0177", "U+0178", "U+0179", "U+017A", "U+017B", "U+017C", "U+017D", "U+017E",
      "U+017F", "U+0180", "U+0181", "U+0182", "U+0183", "U+0184", "U+0185", "U+0186",
      "U+0187", "U+0188", "U+0189", "U+018A", "U+018B", "U+018C", "U+018D", "U+018E",
      "U+018F", "U+0190", "U+0191", "U+0192", "U+0193", "U+0194", "U+0195", "U+0196",
      "U+0197", "U+0198", "U+0199", "U+019A", "U+019B", "U+019C", "U+019D", "U+019E",
      "U+019F", "U+01A0", "U+01A1", "U+01A2", "U+01A3", "U+01A4", "U+01A5", "U+01A6",
      "U+01A7", "U+01A8", "U+01A9", "U+01AA", "U+01AB", "U+01AC", "U+01AD", "U+01AE",
      "U+01AF", "U+01B0", "U+01B1", "U+01B2", "U+01B3", "U+01B4", "U+01B5", "U+01B6",
      "U+01B7", "U+01B8", "U+01B9", "U+01BA", "U+01BC", "U+01BD", "U+01BE", "U+01BF",
      "U+01C4", "U+01C5", "U+01C6", "U+01C7", "U+01C8", "U+01C9", "U+01CA", "U+01CB",
      "U+01CC", "U+01CD", "U+01CE", "U+01CF", "U+01D0", "U+01D1", "U+01D2", "U+01D3",
      "U+01D4", "U+01D5", "U+01D6", "U+01D7", "U+01D8", "U+01D9", "U+01DA", "U+01DB",
      "U+01DC", "U+01DD", "U+01DE", "U+01DF", "U+01E0", "U+01E1", "U+01E2", "U+01E3",
      "U+01E4", "U+01E5", "U+01E6", "U+01E7", "U+01E8", "U+01E9", "U+01EA", "U+01EB",
      "U+01EC", "U+01ED", "U+01EE", "U+01EF", "U+01F0", "U+01F1", "U+01F2", "U+01F3",
      "U+01F4", "U+01F5", "U+01F6", "U+01F7", "U+01F8", "U+01F9", "U+01FA", "U+01FB",
      "U+01FC", "U+01FD", "U+01FE", "U+01FF", "U+0200", "U+0201", "U+0202", "U+0203",
      "U+0204", "U+0205", "U+0206", "U+0207", "U+0208", "U+0209", "U+020A", "U+020B",
      "U+020C", "U+020D", "U+020E", "U+020F", "U+0210", "U+0211", "U+0212", "U+0213",
      "U+0214", "U+0215", "U+0216", "U+0217", "U+0218", "U+0219", "U+021A", "U+021B",
      "U+021C", "U+021D", "U+021E", "U+021F", "U+0220", "U+0221", "U+0222", "U+0223",
      "U+0224", "U+0225", "U+0226", "U+0227", "U+0228", "U+0229", "U+022A", "U+022B",
      "U+022C", "U+022D", "U+022E", "U+022F", "U+0230", "U+0231", "U+0232", "U+0233",
      "U+0234", "U+0235", "U+0236", "U+0237", "U+0238", "U+0239", "U+023A", "U+023B",
      "U+023C", "U+023D", "U+023E", "U+023F", "U+0240", "U+0241", "U+0242", "U+0243",
      "U+0244", "U+0245", "U+0246", "U+0247", "U+0248", "U+0249", "U+024A", "U+024B",
      "U+024C", "U+024D", "U+024E", "U+024F", "U+0250", "U+0251", "U+0252", "U+0253",
      "U+0254", "U+0255", "U+0256", "U+0257", "U+0258", "U+0259", "U+025A", "U+025B",
      "U+025C", "U+025D", "U+025E", "U+025F", "U+0260", "U+0261", "U+0262", "U+0263",
      "U+0264", "U+0265", "U+0266", "U+0267", "U+0268", "U+0269", "U+026A", "U+026B",
      "U+026C", "U+026D", "U+026E", "U+026F", "U+0270", "U+0271", "U+0272", "U+0273",
      "U+0274", "U+0275", "U+0276", "U+0277", "U+0278", "U+0279", "U+027A", "U+027B",
      "U+027C", "U+027D", "U+027E", "U+027F", "U+0280", "U+0281", "U+0282", "U+0283",
      "U+0284", "U+0285", "U+0286", "U+0287", "U+0288", "U+0289", "U+028A", "U+028B",
      "U+028C", "U+028D", "U+028E", "U+028F", "U+0290", "U+0291", "U+0292", "U+0293",
      "U+0295", "U+0296", "U+0297", "U+0298", "U+0299", "U+029A", "U+029B", "U+029C",
      "U+029D", "U+029E", "U+029F", "U+02A0", "U+02A1", "U+02A2", "U+02A3", "U+02A4",
      "U+02A5", "U+02A6", "U+02A7", "U+02A8", "U+02A9", "U+02AA", "U+02AB", "U+02AC",
      "U+02AD", "U+02AE", "U+02AF", "U+0370", "U+0371", "U+0372", "U+0373", "U+0376",
      "U+0377", "U+037B", "U+037C", "U+037D", "U+037F", "U+0386", "U+0388", "U+0389",
      "U+038A", "U+038C", "U+038E", "U+038F", "U+0390", "U+0391", "U+0392", "U+0393",
      "U+0394", "U+0395", "U+0396", "U+0397", "U+0398", "U+0399", "U+039A", "U+039B",
      "U+039C", "U+039D", "U+039E", "U+039F", "U+03A0", "U+03A1", "U+03A3", "U+03A4",
      "U+03A5", "U+03A6", "U+03A7", "U+03A8", "U+03A9", "U+03AA", "U+03AB", "U+03AC",
      "U+03AD", "U+03AE", "U+03AF", "U+03B0", "U+03B1", "U+03B2", "U+03B3", "U+03B4",
      "U+03B5", "U+03B6", "U+03B7", "U+03B8", "U+03B9", "U+03BA", "U+03BB", "U+03BC",
      "U+03BD", "U+03BE", "U+03BF", "U+03C0", "U+03C1", "U+03C2", "U+03C3", "U+03C4",
      "U+03C5", "U+03C6", "U+03C7", "U+03C8", "U+03C9", "U+03CA", "U+03CB", "U+03CC",
      "U+03CD", "U+03CE", "U+03CF", "U+03D0", "U+03D1", "U+03D2", "U+03D3", "U+03D4",
      "U+03D5", "U+03D6", "U+03D7", "U+03D8", "U+03D9", "U+03DA", "U+03DB", "U+03DC",
      "U+03DD", "U+03DE", "U+03DF", "U+03E0", "U+03E1", "U+03E2", "U+03E3", "U+03E4",
      "U+03E5", "U+03E6", "U+03E7", "U+03E8", "U+03E9", "U+03EA", "U+03EB", "U+03EC",
      "U+03ED", "U+03EE", "U+03EF", "U+03F0", "U+03F1", "U+03F2", "U+03F3", "U+03F4",
      "U+03F5", "U+03F7", "U+03F8", "U+03F9", "U+03FA", "U+03FB", "U+03FC", "U+03FD",
      "U+03FE", "U+03FF", "U+0400", "U+0401", "U+0402", "U+0403", "U+0404", "U+0405",
      "U+0406", "U+0407", "U+0408", "U+0409", "U+040A", "U+040B", "U+040C", "U+040D",
      "U+040E", "U+040F", "U+0410", "U+0411", "U+0412", "U+0413", "U+0414", "U+0415",
      "U+0416", "U+0417", "U+0418", "U+0419", "U+041A", "U+041B", "U+041C", "U+041D",
      "U+041E", "U+041F", "U+0420", "U+0421", "U+0422", "U+0423", "U+0424", "U+0425",
      "U+0426", "U+0427", "U+0428", "U+0429", "U+042A", "U+042B", "U+042C", "U+042D",
      "U+042E", "U+042F", "U+0430", "U+0431", "U+0432", "U+0433", "U+0434", "U+0435",
      "U+0436", "U+0437", "U+0438", "U+0439", "U+043A", "U+043B", "U+043C", "U+043D",
      "U+043E", "U+043F", "U+0440", "U+0441", "U+0442", "U+0443", "U+0444", "U+0445",
      "U+0446", "U+0447", "U+0448", "U+0449", "U+044A", "U+044B", "U+044C", "U+044D",
      "U+044E", "U+044F", "U+0450", "U+0451", "U+0452", "U+0453", "U+0454", "U+0455",
      "U+0456", "U+0457", "U+0458", "U+0459", "U+045A", "U+045B", "U+045C", "U+045D",
      "U+045E", "U+045F", "U+0460", "U+0461", "U+0462", "U+0463", "U+0464", "U+0465",
      "U+0466", "U+0467", "U+0468", "U+0469", "U+046A", "U+046B", "U+046C", "U+046D",
      "U+046E", "U+046F", "U+0470", "U+0471", "U+0472", "U+0473", "U+0474", "U+0475",
      "U+0476", "U+0477", "U+0478", "U+0479", "U+047A", "U+047B", "U+047C", "U+047D",
      "U+047E", "U+047F", "U+0480", "U+0481", "U+048A", "U+048B", "U+048C", "U+048D",
      "U+048E", "U+048F", "U+0490", "U+0491", "U+0492", "U+0493", "U+0494", "U+0495",
      "U+0496", "U+0497", "U+0498", "U+0499", "U+049A", "U+049B", "U+049C", "U+049D",
      "U+049E", "U+049F", "U+04A0", "U+04A1", "U+04A2", "U+04A3", "U+04A4", "U+04A5",
      "U+04A6", "U+04A7", "U+04A8", "U+04A9", "U+04AA", "U+04AB", "U+04AC", "U+04AD",
      "U+04AE", "U+04AF", "U+04B0", "U+04B1", "U+04B2", "U+04B3", "U+04B4", "U+04B5",
      "U+04B6", "U+04B7", "U+04B8", "U+04B9", "U+04BA", "U+04BB", "U+04BC", "U+04BD",
      "U+04BE", "U+04BF", "U+04C0", "U+04C1", "U+04C2", "U+04C3", "U+04C4", "U+04C5",
      "U+04C6", "U+04C7", "U+04C8", "U+04C9", "U+04CA", "U+04CB", "U+04CC", "U+04CD",
      "U+04CE", "U+04CF", "U+04D0", "U+04D1", "U+04D2", "U+04D3", "U+04D4", "U+04D5",
      "U+04D6", "U+04D7", "U+04D8", "U+04D9", "U+04DA", "U+04DB", "U+04DC", "U+04DD",
      "U+04DE", "U+04DF", "U+04E0", "U+04E1", "U+04E2", "U+04E3", "U+04E4", "U+04E5",
      "U+04E6", "U+04E7", "U+04E8", "U+04E9", "U+04EA", "U+04EB", "U+04EC", "U+04ED",
      "U+04EE", "U+04EF", "U+04F0", "U+04F1", "U+04F2", "U+04F3", "U+04F4", "U+04F5",
      "U+04F6", "U+04F7", "U+04F8", "U+04F9", "U+04FA", "U+04FB", "U+04FC", "U+04FD",
      "U+04FE", "U+04FF", "U+0500", "U+0501", "U+0502", "U+0503", "U+0504", "U+0505",
      "U+0506", "U+0507", "U+0508", "U+0509", "U+050A", "U+050B", "U+050C", "U+050D",
      "U+050E", "U+050F", "U+0510", "U+0511", "U+0512", "U+0513", "U+0514", "U+0515",
      "U+0516", "U+0517", "U+0518", "U+0519", "U+051A", "U+051B", "U+051C", "U+051D",
      "U+051E", "U+051F", "U+0520", "U+0521", "U+0522", "U+0523", "U+0524", "U+0525",
      "U+0526", "U+0527", "U+0528", "U+0529", "U+052A", "U+052B", "U+052C", "U+052D",
      "U+052E", "U+052F", "U+0531", "U+0532", "U+0533", "U+0534", "U+0535", "U+0536",
      "U+0537", "U+0538", "U+0539", "U+053A", "U+053B", "U+053C", "U+053D", "U+053E",
      "U+053F", "U+0540", "U+0541", "U+0542", "U+0543", "U+0544", "U+0545", "U+0546",
      "U+0547", "U+0548", "U+0549", "U+054A", "U+054B", "U+054C", "U+054D", "U+054E",
      "U+054F", "U+0550", "U+0551", "U+0552", "U+0553", "U+0554", "U+0555", "U+0556",
      "U+0560", "U+0561", "U+0562", "U+0563", "U+0564", "U+0565", "U+0566", "U+0567",
      "U+0568", "U+0569", "U+056A", "U+056B", "U+056C", "U+056D", "U+056E", "U+056F",
      "U+0570", "U+0571", "U+0572", "U+0573", "U+0574", "U+0575", "U+0576", "U+0577",
      "U+0578", "U+0579", "U+057A", "U+057B", "U+057C", "U+057D", "U+057E", "U+057F",
      "U+0580", "U+0581", "U+0582", "U+0583", "U+0584", "U+0585", "U+0586", "U+0587",
      "U+0588", "U+10A0", "U+10A1", "U+10A2", "U+10A3", "U+10A4", "U+10A5", "U+10A6",
      "U+10A7", "U+10A8", "U+10A9", "U+10AA", "U+10AB", "U+10AC", "U+10AD", "U+10AE",
      "U+10AF", "U+10B0", "U+10B1", "U+10B2", "U+10B3", "U+10B4", "U+10B5", "U+10B6",
      "U+10B7", "U+10B8", "U+10B9", "U+10BA", "U+10BB", "U+10BC", "U+10BD", "U+10BE",
      "U+10BF", "U+10C0", "U+10C1", "U+10C2", "U+10C3", "U+10C4", "U+10C5", "U+10C7",
      "U+10CD", "U+10D0", "U+10D1", "U+10D2", "U+10D3", "U+10D4", "U+10D5", "U+10D6",
      "U+10D7", "U+10D8", "U+10D9", "U+10DA", "U+10DB", "U+10DC", "U+10DD", "U+10DE",
      "U+10DF", "U+10E0", "U+10E1", "U+10E2", "U+10E3", "U+10E4", "U+10E5", "U+10E6",
      "U+10E7", "U+10E8", "U+10E9", "U+10EA", "U+10EB", "U+10EC", "U+10ED", "U+10EE",
      "U+10EF", "U+10F0", "U+10F1", "U+10F2", "U+10F3", "U+10F4", "U+10F5", "U+10F6",
      "U+10F7", "U+10F8", "U+10F9", "U+10FA", "U+10FD", "U+10FE", "U+10FF", "U+13A0",
      "U+13A1", "U+13A2", "U+13A3", "U+13A4", "U+13A5", "U+13A6", "U+13A7", "U+13A8",
      "U+13A9", "U+13AA", "U+13AB", "U+13AC", "U+13AD", "U+13AE", "U+13AF", "U+13B0",
      "U+13B1", "U+13B2", "U+13B3", "U+13B4", "U+13B5", "U+13B6", "U+13B7", "U+13B8",
      "U+13B9", "U+13BA", "U+13BB", "U+13BC", "U+13BD", "U+13BE", "U+13BF", "U+13C0",
      "U+13C1", "U+13C2", "U+13C3", "U+13C4", "U+13C5", "U+13C6", "U+13C7", "U+13C8",
      "U+13C9", "U+13CA", "U+13CB", "U+13CC", "U+13CD", "U+13CE", "U+13CF", "U+13D0",
      "U+13D1", "U+13D2", "U+13D3", "U+13D4", "U+13D5", "U+13D6", "U+13D7", "U+13D8",
      "U+13D9", "U+13DA", "U+13DB", "U+13DC", "U+13DD", "U+13DE", "U+13DF", "U+13E0",
      "U+13E1", "U+13E2", "U+13E3", "U+13E4", "U+13E5", "U+13E6", "U+13E7", "U+13E8",
      "U+13E9", "U+13EA", "U+13EB", "U+13EC", "U+13ED", "U+13EE", "U+13EF", "U+13F0",
      "U+13F1", "U+13F2", "U+13F3", "U+13F4", "U+13F5", "U+13F8", "U+13F9", "U+13FA",
      "U+13FB", "U+13FC", "U+13FD", "U+1C80", "U+1C81", "U+1C82", "U+1C83", "U+1C84",
      "U+1C85", "U+1C86", "U+1C87", "U+1C88", "U+1C90", "U+1C91", "U+1C92", "U+1C93",
      "U+1C94", "U+1C95", "U+1C96", "U+1C97", "U+1C98", "U+1C99", "U+1C9A", "U+1C9B",
      "U+1C9C", "U+1C9D", "U+1C9E", "U+1C9F", "U+1CA0", "U+1CA1", "U+1CA2", "U+1CA3",
      "U+1CA4", "U+1CA5", "U+1CA6", "U+1CA7", "U+1CA8", "U+1CA9", "U+1CAA", "U+1CAB",
      "U+1CAC", "U+1CAD", "U+1CAE", "U+1CAF", "U+1CB0", "U+1CB1", "U+1CB2", "U+1CB3",
      "U+1CB4", "U+1CB5", "U+1CB6", "U+1CB7", "U+1CB8", "U+1CB9", "U+1CBA", "U+1CBD",
      "U+1CBE", "U+1CBF", "U+1D00", "U+1D01", "U+1D02", "U+1D03", "U+1D04", "U+1D05",
      "U+1D06", "U+1D07", "U+1D08", "U+1D09", "U+1D0A", "U+1D0B", "U+1D0C", "U+1D0D",
      "U+1D0E", "U+1D0F", "U+1D10", "U+1D11", "U+1D12", "U+1D13", "U+1D14", "U+1D15",
      "U+1D16", "U+1D17", "U+1D18", "U+1D19", "U+1D1A", "U+1D1B", "U+1D1C", "U+1D1D",
      "U+1D1E", "U+1D1F", "U+1D20", "U+1D21", "U+1D22", "U+1D23", "U+1D24", "U+1D25",
      "U+1D26", "U+1D27", "U+1D28", "U+1D29", "U+1D2A", "U+1D2B", "U+1D6B", "U+1D6C",
      "U+1D6D", "U+1D6E", "U+1D6F", "U+1D70", "U+1D71", "U+1D72", "U+1D73", "U+1D74",
      "U+1D75", "U+1D76", "U+1D77", "U+1D79", "U+1D7A", "U+1D7B", "U+1D7C", "U+1D7D",
      "U+1D7E", "U+1D7F", "U+1D80", "U+1D81", "U+1D82", "U+1D83", "U+1D84", "U+1D85",
      "U+1D86", "U+1D87", "U+1D88", "U+1D89", "U+1D8A", "U+1D8B", "U+1D8C", "U+1D8D",
      "U+1D8E", "U+1D8F", "U+1D90", "U+1D91", "U+1D92", "U+1D93", "U+1D94", "U+1D95",
      "U+1D96", "U+1D97", "U+1D98", "U+1D99", "U+1D9A", "U+1E00", "U+1E01", "U+1E02",
      "U+1E03", "U+1E04", "U+1E05", "U+1E06", "U+1E07", "U+1E08", "U+1E09", "U+1E0A",
      "U+1E0B", "U+1E0C", "U+1E0D", "U+1E0E", "U+1E0F", "U+1E10", "U+1E11", "U+1E12",
      "U+1E13", "U+1E14", "U+1E15", "U+1E16", "U+1E17", "U+1E18", "U+1E19", "U+1E1A",
      "U+1E1B", "U+1E1C", "U+1E1D", "U+1E1E", "U+1E1F", "U+1E20", "U+1E21", "U+1E22",
      "U+1E23", "U+1E24", "U+1E25", "U+1E26", "U+1E27", "U+1E28", "U+1E29", "U+1E2A",
      "U+1E2B", "U+1E2C", "U+1E2D", "U+1E2E", "U+1E2F", "U+1E30", "U+1E31", "U+1E32",
      "U+1E33", "U+1E34", "U+1E35", "U+1E36", "U+1E37", "U+1E38", "U+1E39", "U+1E3A",
      "U+1E3B", "U+1E3C", "U+1E3D", "U+1E3E", "U+1E3F", "U+1E40", "U+1E41", "U+1E42",
      "U+1E43", "U+1E44", "U+1E45", "U+1E46", "U+1E47", "U+1E48", "U+1E49", "U+1E4A",
      "U+1E4B", "U+1E4C", "U+1E4D", "U+1E4E", "U+1E4F", "U+1E50", "U+1E51", "U+1E52",
      "U+1E53", "U+1E54", "U+1E55", "U+1E56", "U+1E57", "U+1E58", "U+1E59", "U+1E5A",
      "U+1E5B", "U+1E5C", "U+1E5D", "U+1E5E", "U+1E5F", "U+1E60", "U+1E61", "U+1E62",
      "U+1E63", "U+1E64", "U+1E65", "U+1E66", "U+1E67", "U+1E68", "U+1E69", "U+1E6A",
      "U+1E6B", "U+1E6C", "U+1E6D", "U+1E6E", "U+1E6F", "U+1E70", "U+1E71", "U+1E72",
      "U+1E73", "U+1E74", "U+1E75", "U+1E76", "U+1E77", "U+1E78", "U+1E79", "U+1E7A",
      "U+1E7B", "U+1E7C", "U+1E7D", "U+1E7E", "U+1E7F", "U+1E80", "U+1E81", "U+1E82",
      "U+1E83", "U+1E84", "U+1E85", "U+1E86", "U+1E87", "U+1E88", "U+1E89", "U+1E8A",
      "U+1E8B", "U+1E8C", "U+1E8D", "U+1E8E", "U+1E8F", "U+1E90", "U+1E91", "U+1E92",
      "U+1E93", "U+1E94", "U+1E95", "U+1E96", "U+1E97", "U+1E98", "U+1E99", "U+1E9A",
      "U+1E9B", "U+1E9C", "U+1E9D", "U+1E9E", "U+1E9F", "U+1EA0", "U+1EA1", "U+1EA2",
      "U+1EA3", "U+1EA4", "U+1EA5", "U+1EA6", "U+1EA7", "U+1EA8", "U+1EA9", "U+1EAA",
      "U+1EAB", "U+1EAC", "U+1EAD", "U+1EAE", "U+1EAF", "U+1EB0", "U+1EB1", "U+1EB2",
      "U+1EB3", "U+1EB4", "U+1EB5", "U+1EB6", "U+1EB7", "U+1EB8", "U+1EB9", "U+1EBA",
      "U+1EBB", "U+1EBC", "U+1EBD", "U+1EBE", "U+1EBF", "U+1EC0", "U+1EC1", "U+1EC2",
      "U+1EC3", "U+1EC4", "U+1EC5", "U+1EC6", "U+1EC7", "U+1EC8", "U+1EC9", "U+1ECA",
      "U+1ECB", "U+1ECC", "U+1ECD", "U+1ECE", "U+1ECF", "U+1ED0", "U+1ED1", "U+1ED2",
      "U+1ED3", "U+1ED4", "U+1ED5", "U+1ED6", "U+1ED7", "U+1ED8", "U+1ED9", "U+1EDA",
      "U+1EDB", "U+1EDC", "U+1EDD", "U+1EDE", "U+1EDF", "U+1EE0", "U+1EE1", "U+1EE2",
      "U+1EE3", "U+1EE4", "U+1EE5", "U+1EE6", "U+1EE7", "U+1EE8", "U+1EE9", "U+1EEA",
      "U+1EEB", "U+1EEC", "U+1EED", "U+1EEE", "U+1EEF", "U+1EF0", "U+1EF1", "U+1EF2",
      "U+1EF3", "U+1EF4", "U+1EF5", "U+1EF6", "U+1EF7", "U+1EF8", "U+1EF9", "U+1EFA",
      "U+1EFB", "U+1EFC", "U+1EFD", "U+1EFE", "U+1EFF", "U+1F00", "U+1F01", "U+1F02",
      "U+1F03", "U+1F04", "U+1F05", "U+1F06", "U+1F07", "U+1F08", "U+1F09", "U+1F0A",
      "U+1F0B", "U+1F0C", "U+1F0D", "U+1F0E", "U+1F0F", "U+1F10", "U+1F11", "U+1F12",
      "U+1F13", "U+1F14", "U+1F15", "U+1F18", "U+1F19", "U+1F1A", "U+1F1B", "U+1F1C",
      "U+1F1D", "U+1F20", "U+1F21", "U+1F22", "U+1F23", "U+1F24", "U+1F25", "U+1F26",
      "U+1F27", "U+1F28", "U+1F29", "U+1F2A", "U+1F2B", "U+1F2C", "U+1F2D", "U+1F2E",
      "U+1F2F", "U+1F30", "U+1F31", "U+1F32", "U+1F33", "U+1F34", "U+1F35", "U+1F36",
      "U+1F37", "U+1F38", "U+1F39", "U+1F3A", "U+1F3B", "U+1F3C", "U+1F3D", "U+1F3E",
      "U+1F3F", "U+1F40", "U+1F41", "U+1F42", "U+1F43", "U+1F44", "U+1F45", "U+1F48",
      "U+1F49", "U+1F4A", "U+1F4B", "U+1F4C", "U+1F4D", "U+1F50", "U+1F51", "U+1F52",
      "U+1F53", "U+1F54", "U+1F55", "U+1F56", "U+1F57", "U+1F59", "U+1F5B", "U+1F5D",
      "U+1F5F", "U+1F60", "U+1F61", "U+1F62", "U+1F63", "U+1F64", "U+1F65", "U+1F66",
      "U+1F67", "U+1F68", "U+1F69", "U+1F6A", "U+1F6B", "U+1F6C", "U+1F6D", "U+1F6E",
      "U+1F6F", "U+1F70", "U+1F71", "U+1F72", "U+1F73", "U+1F74", "U+1F75", "U+1F76",
      "U+1F77", "U+1F78", "U+1F79", "U+1F7A", "U+1F7B", "U+1F7C", "U+1F7D", "U+1F80",
      "U+1F81", "U+1F82", "U+1F83", "U+1F84", "U+1F85", "U+1F86", "U+1F87", "U+1F88",
      "U+1F89", "U+1F8A", "U+1F8B", "U+1F8C", "U+1F8D", "U+1F8E", "U+1F8F", "U+1F90",
      "U+1F91", "U+1F92", "U+1F93", "U+1F94", "U+1F95", "U+1F96", "U+1F97", "U+1F98",
      "U+1F99", "U+1F9A", "U+1F9B", "U+1F9C", "U+1F9D", "U+1F9E", "U+1F9F", "U+1FA0",
      "U+1FA1", "U+1FA2", "U+1FA3", "U+1FA4", "U+1FA5", "U+1FA6", "U+1FA7", "U+1FA8",
      "U+1FA9", "U+1FAA", "U+1FAB", "U+1FAC", "U+1FAD", "U+1FAE", "U+1FAF", "U+1FB0",
      "U+1FB1", "U+1FB2", "U+1FB3", "U+1FB4", "U+1FB6", "U+1FB7", "U+1FB8", "U+1FB9",
      "U+1FBA", "U+1FBB", "U+1FBC", "U+1FBE", "U+1FC2", "U+1FC3", "U+1FC4", "U+1FC6",
      "U+1FC7", "U+1FC8", "U+1FC9", "U+1FCA", "U+1FCB", "U+1FCC", "U+1FD0", "U+1FD1",
      "U+1FD2", "U+1FD3", "U+1FD6", "U+1FD7", "U+1FD8", "U+1FD9", "U+1FDA", "U+1FDB",
      "U+1FE0", "U+1FE1", "U+1FE2", "U+1FE3", "U+1FE4", "U+1FE5", "U+1FE6", "U+1FE7",
      "U+1FE8", "U+1FE9", "U+1FEA", "U+1FEB", "U+1FEC", "U+1FF2", "U+1FF3", "U+1FF4",
      "U+1FF6", "U+1FF7", "U+1FF8", "U+1FF9", "U+1FFA", "U+1FFB", "U+1FFC", "U+2102",
      "U+2107", "U+210A", "U+210B", "U+210C", "U+210D", "U+210E", "U+210F", "U+2110",
      "U+2111", "U+2112", "U+2113", "U+2115", "U+2119", "U+211A", "U+211B", "U+211C",
      "U+211D", "U+2124", "U+2126", "U+2128", "U+212A", "U+212B", "U+212C", "U+212D",
      "U+212F", "U+2130", "U+2131", "U+2132", "U+2133", "U+2134", "U+2139", "U+213C",
      "U+213D", "U+213E", "U+213F", "U+2145", "U+2146", "U+2147", "U+2148", "U+2149",
      "U+214E", "U+2160", "U+2161", "U+2162", "U+2163", "U+2164", "U+2165", "U+2166",
      "U+2167", "U+2168", "U+2169", "U+216A", "U+216B", "U+216C", "U+216D", "U+216E",
      "U+216F", "U+2170", "U+2171", "U+2172", "U+2173", "U+2174", "U+2175", "U+2176",
      "U+2177", "U+2178", "U+2179", "U+217A", "U+217B", "U+217C", "U+217D", "U+217E",
      "U+217F", "U+2183", "U+2184", "U+24B6", "U+24B7", "U+24B8", "U+24B9", "U+24BA",
      "U+24BB", "U+24BC", "U+24BD", "U+24BE", "U+24BF", "U+24C0", "U+24C1", "U+24C2",
      "U+24C3", "U+24C4", "U+24C5", "U+24C6", "U+24C7", "U+24C8", "U+24C9", "U+24CA",
      "U+24CB", "U+24CC", "U+24CD", "U+24CE", "U+24CF", "U+24D0", "U+24D1", "U+24D2",
      "U+24D3", "U+24D4", "U+24D5", "U+24D6", "U+24D7", "U+24D8", "U+24D9", "U+24DA",
      "U+24DB", "U+24DC", "U+24DD", "U+24DE", "U+24DF", "U+24E0", "U+24E1", "U+24E2",
      "U+24E3", "U+24E4", "U+24E5", "U+24E6", "U+24E7", "U+24E8", "U+24E9", "U+2C00",
      "U+2C01", "U+2C02", "U+2C03", "U+2C04", "U+2C05", "U+2C06", "U+2C07", "U+2C08",
      "U+2C09", "U+2C0A", "U+2C0B", "U+2C0C", "U+2C0D", "U+2C0E", "U+2C0F", "U+2C10",
      "U+2C11", "U+2C12", "U+2C13", "U+2C14", "U+2C15", "U+2C16", "U+2C17", "U+2C18",
      "U+2C19", "U+2C1A", "U+2C1B", "U+2C1C", "U+2C1D", "U+2C1E", "U+2C1F", "U+2C20",
      "U+2C21", "U+2C22", "U+2C23", "U+2C24", "U+2C25", "U+2C26", "U+2C27", "U+2C28",
      "U+2C29", "U+2C2A", "U+2C2B", "U+2C2C", "U+2C2D", "U+2C2E", "U+2C2F", "U+2C30",
      "U+2C31", "U+2C32", "U+2C33", "U+2C34", "U+2C35", "U+2C36", "U+2C37", "U+2C38",
      "U+2C39", "U+2C3A", "U+2C3B", "U+2C3C", "U+2C3D", "U+2C3E", "U+2C3F", "U+2C40",
      "U+2C41", "U+2C42", "U+2C43", "U+2C44", "U+2C45", "U+2C46", "U+2C47", "U+2C48",
      "U+2C49", "U+2C4A", "U+2C4B", "U+2C4C", "U+2C4D", "U+2C4E", "U+2C4F", "U+2C50",
      "U+2C51", "U+2C52", "U+2C53", "U+2C54", "U+2C55", "U+2C56", "U+2C57", "U+2C58",
      "U+2C59", "U+2C5A", "U+2C5B", "U+2C5C", "U+2C5D", "U+2C5E", "U+2C5F", "U+2C60",
      "U+2C61", "U+2C62", "U+2C63", "U+2C64", "U+2C65", "U+2C66", "U+2C67", "U+2C68",
      "U+2C69", "U+2C6A", "U+2C6B", "U+2C6C", "U+2C6D", "U+2C6E", "U+2C6F", "U+2C70",
      "U+2C71", "U+2C72", "U+2C73", "U+2C74", "U+2C75", "U+2C76", "U+2C77", "U+2C78",
      "U+2C79", "U+2C7A", "U+2C7B", "U+2C7E", "U+2C7F", "U+2C80", "U+2C81", "U+2C82",
      "U+2C83", "U+2C84", "U+2C85", "U+2C86", "U+2C87", "U+2C88", "U+2C89", "U+2C8A",
      "U+2C8B", "U+2C8C", "U+2C8D", "U+2C8E", "U+2C8F", "U+2C90", "U+2C91", "U+2C92",
      "U+2C93", "U+2C94", "U+2C95", "U+2C96", "U+2C97", "U+2C98", "U+2C99", "U+2C9A",
      "U+2C9B", "U+2C9C", "U+2C9D", "U+2C9E", "U+2C9F", "U+2CA0", "U+2CA1", "U+2CA2",
      "U+2CA3", "U+2CA4", "U+2CA5", "U+2CA6", "U+2CA7", "U+2CA8", "U+2CA9", "U+2CAA",
      "U+2CAB", "U+2CAC", "U+2CAD", "U+2CAE", "U+2CAF", "U+2CB0", "U+2CB1", "U+2CB2",
      "U+2CB3", "U+2CB4", "U+2CB5", "U+2CB6", "U+2CB7", "U+2CB8", "U+2CB9", "U+2CBA",
      "U+2CBB", "U+2CBC", "U+2CBD", "U+2CBE", "U+2CBF", "U+2CC0", "U+2CC1", "U+2CC2",
      "U+2CC3", "U+2CC4", "U+2CC5", "U+2CC6", "U+2CC7", "U+2CC8", "U+2CC9", "U+2CCA",
      "U+2CCB", "U+2CCC", "U+2CCD", "U+2CCE", "U+2CCF", "U+2CD0", "U+2CD1", "U+2CD2",
      "U+2CD3", "U+2CD4", "U+2CD5", "U+2CD6", "U+2CD7", "U+2CD8", "U+2CD9", "U+2CDA",
      "U+2CDB", "U+2CDC", "U+2CDD", "U+2CDE", "U+2CDF", "U+2CE0", "U+2CE1", "U+2CE2",
      "U+2CE3", "U+2CE4", "U+2CEB", "U+2CEC", "U+2CED", "U+2CEE", "U+2CF2", "U+2CF3",
      "U+2D00", "U+2D01", "U+2D02", "U+2D03", "U+2D04", "U+2D05", "U+2D06", "U+2D07",
      "U+2D08", "U+2D09", "U+2D0A", "U+2D0B", "U+2D0C", "U+2D0D", "U+2D0E", "U+2D0F",
      "U+2D10", "U+2D11", "U+2D12", "U+2D13", "U+2D14", "U+2D15", "U+2D16", "U+2D17",
      "U+2D18", "U+2D19", "U+2D1A", "U+2D1B", "U+2D1C", "U+2D1D", "U+2D1E", "U+2D1F",
      "U+2D20", "U+2D21", "U+2D22", "U+2D23", "U+2D24", "U+2D25", "U+2D27", "U+2D2D",
      "U+A640", "U+A641", "U+A642", "U+A643", "U+A644", "U+A645", "U+A646", "U+A647",
      "U+A648", "U+A649", "U+A64A", "U+A64B", "U+A64C", "U+A64D", "U+A64E", "U+A64F",
      "U+A650", "U+A651", "U+A652", "U+A653", "U+A654", "U+A655", "U+A656", "U+A657",
      "U+A658", "U+A659", "U+A65A", "U+A65B", "U+A65C", "U+A65D", "U+A65E", "U+A65F",
      "U+A660", "U+A661", "U+A662", "U+A663", "U+A664", "U+A665", "U+A666", "U+A667",
      "U+A668", "U+A669", "U+A66A", "U+A66B", "U+A66C", "U+A66D", "U+A680", "U+A681",
      "U+A682", "U+A683", "U+A684", "U+A685", "U+A686", "U+A687", "U+A688", "U+A689",
      "U+A68A", "U+A68B", "U+A68C", "U+A68D", "U+A68E", "U+A68F", "U+A690", "U+A691",
      "U+A692", "U+A693", "U+A694", "U+A695", "U+A696", "U+A697", "U+A698", "U+A699",
      "U+A69A", "U+A69B", "U+A722", "U+A723", "U+A724", "U+A725", "U+A726", "U+A727",
      "U+A728", "U+A729", "U+A72A", "U+A72B", "U+A72C", "U+A72D", "U+A72E", "U+A72F",
      "U+A730", "U+A731", "U+A732", "U+A733", "U+A734", "U+A735", "U+A736", "U+A737",
      "U+A738", "U+A739", "U+A73A", "U+A73B", "U+A73C", "U+A73D", "U+A73E", "U+A73F",
      "U+A740", "U+A741", "U+A742", "U+A743", "U+A744", "U+A745", "U+A746", "U+A747",
      "U+A748", "U+A749", "U+A74A", "U+A74B", "U+A74C", "U+A74D", "U+A74E", "U+A74F",
      "U+A750", "U+A751", "U+A752", "U+A753", "U+A754", "U+A755", "U+A756", "U+A757",
      "U+A758", "U+A759", "U+A75A", "U+A75B", "U+A75C", "U+A75D", "U+A75E", "U+A75F",
      "U+A760", "U+A761", "U+A762", "U+A763", "U+A764", "U+A765", "U+A766", "U+A767",
      "U+A768", "U+A769", "U+A76A", "U+A76B", "U+A76C", "U+A76D", "U+A76E", "U+A76F",
      "U+A771", "U+A772", "U+A773", "U+A774", "U+A775", "U+A776", "U+A777", "U+A778",
      "U+A779", "U+A77A", "U+A77B", "U+A77C", "U+A77D", "U+A77E", "U+A77F", "U+A780",
      "U+A781", "U+A782", "U+A783", "U+A784", "U+A785", "U+A786", "U+A787", "U+A78B",
      "U+A78C", "U+A78D", "U+A78E", "U+A790", "U+A791", "U+A792", "U+A793", "U+A794",
      "U+A795", "U+A796", "U+A797", "U+A798", "U+A799", "U+A79A", "U+A79B", "U+A79C",
      "U+A79D", "U+A79E", "U+A79F", "U+A7A0", "U+A7A1", "U+A7A2", "U+A7A3", "U+A7A4",
      "U+A7A5", "U+A7A6", "U+A7A7", "U+A7A8", "U+A7A9", "U+A7AA", "U+A7AB", "U+A7AC",
      "U+A7AD", "U+A7AE", "U+A7AF", "U+A7B0", "U+A7B1", "U+A7B2", "U+A7B3", "U+A7B4",
      "U+A7B5", "U+A7B6", "U+A7B7", "U+A7B8", "U+A7B9", "U+A7BA", "U+A7BB", "U+A7BC",
      "U+A7BD", "U+A7BE", "U+A7BF", "U+A7C0", "U+A7C1", "U+A7C2", "U+A7C3", "U+A7C4",
      "U+A7C5", "U+A7C6", "U+A7C7", "U+A7C8", "U+A7C9", "U+A7CA", "U+A7D0", "U+A7D1",
      "U+A7D3", "U+A7D5", "U+A7D6", "U+A7D7", "U+A7D8", "U+A7D9", "U+A7F5", "U+A7F6",
      "U+A7FA", "U+AB30", "U+AB31", "U+AB32", "U+AB33", "U+AB34", "U+AB35", "U+AB36",
      "U+AB37", "U+AB38", "U+AB39", "U+AB3A", "U+AB3B", "U+AB3C", "U+AB3D", "U+AB3E",
      "U+AB3F", "U+AB40", "U+AB41", "U+AB42", "U+AB43", "U+AB44", "U+AB45", "U+AB46",
      "U+AB47", "U+AB48", "U+AB49", "U+AB4A", "U+AB4B", "U+AB4C", "U+AB4D", "U+AB4E",
      "U+AB4F", "U+AB50", "U+AB51", "U+AB52", "U+AB53", "U+AB54", "U+AB55", "U+AB56",
      "U+AB57", "U+AB58", "U+AB59", "U+AB5A", "U+AB60", "U+AB61", "U+AB62", "U+AB63",
      "U+AB64", "U+AB65", "U+AB66", "U+AB67", "U+AB68", "U+AB70", "U+AB71", "U+AB72",
      "U+AB73", "U+AB74", "U+AB75", "U+AB76", "U+AB77", "U+AB78", "U+AB79", "U+AB7A",
      "U+AB7B", "U+AB7C", "U+AB7D", "U+AB7E", "U+AB7F", "U+AB80", "U+AB81", "U+AB82",
      "U+AB83", "U+AB84", "U+AB85", "U+AB86", "U+AB87", "U+AB88", "U+AB89", "U+AB8A",
      "U+AB8B", "U+AB8C", "U+AB8D", "U+AB8E", "U+AB8F", "U+AB90", "U+AB91", "U+AB92",
      "U+AB93", "U+AB94", "U+AB95", "U+AB96", "U+AB97", "U+AB98", "U+AB99", "U+AB9A",
      "U+AB9B", "U+AB9C", "U+AB9D", "U+AB9E", "U+AB9F", "U+ABA0", "U+ABA1", "U+ABA2",
      "U+ABA3", "U+ABA4", "U+ABA5", "U+ABA6", "U+ABA7", "U+ABA8", "U+ABA9", "U+ABAA",
      "U+ABAB", "U+ABAC", "U+ABAD", "U+ABAE", "U+ABAF", "U+ABB0", "U+ABB1", "U+ABB2",
      "U+ABB3", "U+ABB4", "U+ABB5", "U+ABB6", "U+ABB7", "U+ABB8", "U+ABB9", "U+ABBA",
      "U+ABBB", "U+ABBC", "U+ABBD", "U+ABBE", "U+ABBF", "U+FB00", "U+FB01", "U+FB02",
      "U+FB03", "U+FB04", "U+FB05", "U+FB06", "U+FB13", "U+FB14", "U+FB15", "U+FB16",
      "U+FB17", "U+FF21", "U+FF22", "U+FF23", "U+FF24", "U+FF25", "U+FF26", "U+FF27",
      "U+FF28", "U+FF29", "U+FF2A", "U+FF2B", "U+FF2C", "U+FF2D", "U+FF2E", "U+FF2F",
      "U+FF30", "U+FF31", "U+FF32", "U+FF33", "U+FF34", "U+FF35", "U+FF36", "U+FF37",
      "U+FF38", "U+FF39", "U+FF3A", "U+FF41", "U+FF42", "U+FF43", "U+FF44", "U+FF45",
      "U+FF46", "U+FF47", "U+FF48", "U+FF49", "U+FF4A", "U+FF4B", "U+FF4C", "U+FF4D",
      "U+FF4E", "U+FF4F", "U+FF50", "U+FF51", "U+FF52", "U+FF53", "U+FF54", "U+FF55",
      "U+FF56", "U+FF57", "U+FF58", "U+FF59", "U+FF5A", "U+10400", "U+10401", "U+10402",
      "U+10403", "U+10404", "U+10405", "U+10406", "U+10407", "U+10408", "U+10409", "U+1040A",
      "U+1040B", "U+1040C", "U+1040D", "U+1040E", "U+1040F", "U+10410", "U+10411", "U+10412",
      "U+10413", "U+10414", "U+10415", "U+10416", "U+10417", "U+10418", "U+10419", "U+1041A",
      "U+1041B", "U+1041C", "U+1041D", "U+1041E", "U+1041F", "U+10420", "U+10421", "U+10422",
      "U+10423", "U+10424", "U+10425", "U+10426", "U+10427", "U+10428", "U+10429", "U+1042A",
      "U+1042B", "U+1042C", "U+1042D", "U+1042E", "U+1042F", "U+10430", "U+10431", "U+10432",
      "U+10433", "U+10434", "U+10435", "U+10436", "U+10437", "U+10438", "U+10439", "U+1043A",
      "U+1043B", "U+1043C", "U+1043D", "U+1043E", "U+1043F", "U+10440", "U+10441", "U+10442",
      "U+10443", "U+10444", "U+10445", "U+10446", "U+10447", "U+10448", "U+10449", "U+1044A",
      "U+1044B", "U+1044C", "U+1044D", "U+1044E", "U+1044F", "U+104B0", "U+104B1", "U+104B2",
      "U+104B3", "U+104B4", "U+104B5", "U+104B6", "U+104B7", "U+104B8", "U+104B9", "U+104BA",
      "U+104BB", "U+104BC", "U+104BD", "U+104BE", "U+104BF", "U+104C0", "U+104C1", "U+104C2",
      "U+104C3", "U+104C4", "U+104C5", "U+104C6", "U+104C7", "U+104C8", "U+104C9", "U+104CA",
      "U+104CB", "U+104CC", "U+104CD", "U+104CE", "U+104CF", "U+104D0", "U+104D1", "U+104D2",
      "U+104D3", "U+104D8", "U+104D9", "U+104DA", "U+104DB", "U+104DC", "U+104DD", "U+104DE",
      "U+104DF", "U+104E0", "U+104E1", "U+104E2", "U+104E3", "U+104E4", "U+104E5", "U+104E6",
      "U+104E7", "U+104E8", "U+104E9", "U+104EA", "U+104EB", "U+104EC", "U+104ED", "U+104EE",
      "U+104EF", "U+104F0", "U+104F1", "U+104F2", "U+104F3", "U+104F4", "U+104F5", "U+104F6",
      "U+104F7", "U+104F8", "U+104F9", "U+104FA", "U+104FB", "U+10570", "U+10571", "U+10572",
      "U+10573", "U+10574", "U+10575", "U+10576", "U+10577", "U+10578", "U+10579", "U+1057A",
      "U+1057C", "U+1057D", "U+1057E", "U+1057F", "U+10580", "U+10581", "U+10582", "U+10583",
      "U+10584", "U+10585", "U+10586", "U+10587", "U+10588", "U+10589", "U+1058A", "U+1058C",
      "U+1058D", "U+1058E", "U+1058F", "U+10590", "U+10591", "U+10592", "U+10594", "U+10595",
      "U+10597", "U+10598", "U+10599", "U+1059A", "U+1059B", "U+1059C", "U+1059D", "U+1059E",
      "U+1059F", "U+105A0", "U+105A1", "U+105A3", "U+105A4", "U+105A5", "U+105A6", "U+105A7",
      "U+105A8", "U+105A9", "U+105AA", "U+105AB", "U+105AC", "U+105AD", "U+105AE", "U+105AF",
      "U+105B0", "U+105B1", "U+105B3", "U+105B4", "U+105B5", "U+105B6", "U+105B7", "U+105B8",
      "U+105B9", "U+105BB", "U+105BC", "U+10C80", "U+10C81", "U+10C82", "U+10C83", "U+10C84",
      "U+10C85", "U+10C86", "U+10C87", "U+10C88", "U+10C89", "U+10C8A", "U+10C8B", "U+10C8C",
      "U+10C8D", "U+10C8E", "U+10C8F", "U+10C90", "U+10C91", "U+10C92", "U+10C93", "U+10C94",
      "U+10C95", "U+10C96", "U+10C97", "U+10C98", "U+10C99", "U+10C9A", "U+10C9B", "U+10C9C",
      "U+10C9D", "U+10C9E", "U+10C9F", "U+10CA0", "U+10CA1", "U+10CA2", "U+10CA3", "U+10CA4",
      "U+10CA5", "U+10CA6", "U+10CA7", "U+10CA8", "U+10CA9", "U+10CAA", "U+10CAB", "U+10CAC",
      "U+10CAD", "U+10CAE", "U+10CAF", "U+10CB0", "U+10CB1", "U+10CB2", "U+10CC0", "U+10CC1",
      "U+10CC2", "U+10CC3", "U+10CC4", "U+10CC5", "U+10CC6", "U+10CC7", "U+10CC8", "U+10CC9",
      "U+10CCA", "U+10CCB", "U+10CCC", "U+10CCD", "U+10CCE", "U+10CCF", "U+10CD0", "U+10CD1",
      "U+10CD2", "U+10CD3", "U+10CD4", "U+10CD5", "U+10CD6", "U+10CD7", "U+10CD8", "U+10CD9",
      "U+10CDA", "U+10CDB", "U+10CDC", "U+10CDD", "U+10CDE", "U+10CDF", "U+10CE0", "U+10CE1",
      "U+10CE2", "U+10CE3", "U+10CE4", "U+10CE5", "U+10CE6", "U+10CE7", "U+10CE8", "U+10CE9",
      "U+10CEA", "U+10CEB", "U+10CEC", "U+10CED", "U+10CEE", "U+10CEF", "U+10CF0", "U+10CF1",
      "U+10CF2", "U+118A0", "U+118A1", "U+118A2", "U+118A3", "U+118A4", "U+118A5", "U+118A6",
      "U+118A7", "U+118A8", "U+118A9", "U+118AA", "U+118AB", "U+118AC", "U+118AD", "U+118AE",
      "U+118AF", "U+118B0", "U+118B1", "U+118B2", "U+118B3", "U+118B4", "U+118B5", "U+118B6",
      "U+118B7", "U+118B8", "U+118B9", "U+118BA", "U+118BB", "U+118BC", "U+118BD", "U+118BE",
      "U+118BF", "U+118C0", "U+118C1", "U+118C2", "U+118C3", "U+118C4", "U+118C5", "U+118C6",
      "U+118C7", "U+118C8", "U+118C9", "U+118CA", "U+118CB", "U+118CC", "U+118CD", "U+118CE",
      "U+118CF", "U+118D0", "U+118D1", "U+118D2", "U+118D3", "U+118D4", "U+118D5", "U+118D6",
      "U+118D7", "U+118D8", "U+118D9", "U+118DA", "U+118DB", "U+118DC", "U+118DD", "U+118DE",
      "U+118DF", "U+16E40", "U+16E41", "U+16E42", "U+16E43", "U+16E44", "U+16E45", "U+16E46",
      "U+16E47", "U+16E48", "U+16E49", "U+16E4A", "U+16E4B", "U+16E4C", "U+16E4D", "U+16E4E",
      "U+16E4F", "U+16E50", "U+16E51", "U+16E52", "U+16E53", "U+16E54", "U+16E55", "U+16E56",
      "U+16E57", "U+16E58", "U+16E59", "U+16E5A", "U+16E5B", "U+16E5C", "U+16E5D", "U+16E5E",
      "U+16E5F", "U+16E60", "U+16E61", "U+16E62", "U+16E63", "U+16E64", "U+16E65", "U+16E66",
      "U+16E67", "U+16E68", "U+16E69", "U+16E6A", "U+16E6B", "U+16E6C", "U+16E6D", "U+16E6E",
      "U+16E6F", "U+16E70", "U+16E71", "U+16E72", "U+16E73", "U+16E74", "U+16E75", "U+16E76",
      "U+16E77", "U+16E78", "U+16E79", "U+16E7A", "U+16E7B", "U+16E7C", "U+16E7D", "U+16E7E",
      "U+16E7F", "U+1D400", "U+1D401", "U+1D402", "U+1D403", "U+1D404", "U+1D405", "U+1D406",
      "U+1D407", "U+1D408", "U+1D409", "U+1D40A", "U+1D40B", "U+1D40C", "U+1D40D", "U+1D40E",
      "U+1D40F", "U+1D410", "U+1D411", "U+1D412", "U+1D413", "U+1D414", "U+1D415", "U+1D416",
      "U+1D417", "U+1D418", "U+1D419", "U+1D41A", "U+1D41B", "U+1D41C", "U+1D41D", "U+1D41E",
      "U+1D41F", "U+1D420", "U+1D421", "U+1D422", "U+1D423", "U+1D424", "U+1D425", "U+1D426",
      "U+1D427", "U+1D428", "U+1D429", "U+1D42A", "U+1D42B", "U+1D42C", "U+1D42D", "U+1D42E",
      "U+1D42F", "U+1D430", "U+1D431", "U+1D432", "U+1D433", "U+1D434", "U+1D435", "U+1D436",
      "U+1D437", "U+1D438", "U+1D439", "U+1D43A", "U+1D43B", "U+1D43C", "U+1D43D", "U+1D43E",
      "U+1D43F", "U+1D440", "U+1D441", "U+1D442", "U+1D443", "U+1D444", "U+1D445", "U+1D446",
      "U+1D447", "U+1D448", "U+1D449", "U+1D44A", "U+1D44B", "U+1D44C", "U+1D44D", "U+1D44E",
      "U+1D44F", "U+1D450", "U+1D451", "U+1D452", "U+1D453", "U+1D454", "U+1D456", "U+1D457",
      "U+1D458", "U+1D459", "U+1D45A", "U+1D45B", "U+1D45C", "U+1D45D", "U+1D45E", "U+1D45F",
      "U+1D460", "U+1D461", "U+1D462", "U+1D463", "U+1D464", "U+1D465", "U+1D466", "U+1D467",
      "U+1D468", "U+1D469", "U+1D46A", "U+1D46B", "U+1D46C", "U+1D46D", "U+1D46E", "U+1D46F",
      "U+1D470", "U+1D471", "U+1D472", "U+1D473", "U+1D474", "U+1D475", "U+1D476", "U+1D477",
      "U+1D478", "U+1D479", "U+1D47A", "U+1D47B", "U+1D47C", "U+1D47D", "U+1D47E", "U+1D47F",
      "U+1D480", "U+1D481", "U+1D482", "U+1D483", "U+1D484", "U+1D485", "U+1D486", "U+1D487",
      "U+1D488", "U+1D489", "U+1D48A", "U+1D48B", "U+1D48C", "U+1D48D", "U+1D48E", "U+1D48F",
      "U+1D490", "U+1D491", "U+1D492", "U+1D493", "U+1D494", "U+1D495", "U+1D496", "U+1D497",
      "U+1D498", "U+1D499", "U+1D49A", "U+1D49B", "U+1D49C", "U+1D49E", "U+1D49F", "U+1D4A2",
      "U+1D4A5", "U+1D4A6", "U+1D4A9", "U+1D4AA", "U+1D4AB", "U+1D4AC", "U+1D4AE", "U+1D4AF",
      "U+1D4B0", "U+1D4B1", "U+1D4B2", "U+1D4B3", "U+1D4B4", "U+1D4B5", "U+1D4B6", "U+1D4B7",
      "U+1D4B8", "U+1D4B9", "U+1D4BB", "U+1D4BD", "U+1D4BE", "U+1D4BF", "U+1D4C0", "U+1D4C1",
      "U+1D4C2", "U+1D4C3", "U+1D4C5", "U+1D4C6", "U+1D4C7", "U+1D4C8", "U+1D4C9", "U+1D4CA",
      "U+1D4CB", "U+1D4CC", "U+1D4CD", "U+1D4CE", "U+1D4CF", "U+1D4D0", "U+1D4D1", "U+1D4D2",
      "U+1D4D3", "U+1D4D4", "U+1D4D5", "U+1D4D6", "U+1D4D7", "U+1D4D8", "U+1D4D9", "U+1D4DA",
      "U+1D4DB", "U+1D4DC", "U+1D4DD", "U+1D4DE", "U+1D4DF", "U+1D4E0", "U+1D4E1", "U+1D4E2",
      "U+1D4E3", "U+1D4E4", "U+1D4E5", "U+1D4E6", "U+1D4E7", "U+1D4E8", "U+1D4E9", "U+1D4EA",
      "U+1D4EB", "U+1D4EC", "U+1D4ED", "U+1D4EE", "U+1D4EF", "U+1D4F0", "U+1D4F1", "U+1D4F2",
      "U+1D4F3", "U+1D4F4", "U+1D4F5", "U+1D4F6", "U+1D4F7", "U+1D4F8", "U+1D4F9", "U+1D4FA",
      "U+1D4FB", "U+1D4FC", "U+1D4FD", "U+1D4FE", "U+1D4FF", "U+1D500", "U+1D501", "U+1D502",
      "U+1D503", "U+1D504", "U+1D505", "U+1D507", "U+1D508", "U+1D509", "U+1D50A", "U+1D50D",
      "U+1D50E", "U+1D50F", "U+1D510", "U+1D511", "U+1D512", "U+1D513", "U+1D514", "U+1D516",
      "U+1D517", "U+1D518", "U+1D519", "U+1D51A", "U+1D51B", "U+1D51C", "U+1D51E", "U+1D51F",
      "U+1D520", "U+1D521", "U+1D522", "U+1D523", "U+1D524", "U+1D525", "U+1D526", "U+1D527",
      "U+1D528", "U+1D529", "U+1D52A", "U+1D52B", "U+1D52C", "U+1D52D", "U+1D52E", "U+1D52F",
      "U+1D530", "U+1D531", "U+1D532", "U+1D533", "U+1D534", "U+1D535", "U+1D536", "U+1D537",
      "U+1D538", "U+1D539", "U+1D53B", "U+1D53C", "U+1D53D", "U+1D53E", "U+1D540", "U+1D541",
      "U+1D542", "U+1D543", "U+1D544", "U+1D546", "U+1D54A", "U+1D54B", "U+1D54C", "U+1D54D",
      "U+1D54E", "U+1D54F", "U+1D550", "U+1D552", "U+1D553", "U+1D554", "U+1D555", "U+1D556",
      "U+1D557", "U+1D558", "U+1D559", "U+1D55A", "U+1D55B", "U+1D55C", "U+1D55D", "U+1D55E",
      "U+1D55F", "U+1D560", "U+1D561", "U+1D562", "U+1D563", "U+1D564", "U+1D565", "U+1D566",
      "U+1D567", "U+1D568", "U+1D569", "U+1D56A", "U+1D56B", "U+1D56C", "U+1D56D", "U+1D56E",
      "U+1D56F", "U+1D570", "U+1D571", "U+1D572", "U+1D573", "U+1D574", "U+1D575", "U+1D576",
      "U+1D577", "U+1D578", "U+1D579", "U+1D57A", "U+1D57B", "U+1D57C", "U+1D57D", "U+1D57E",
      "U+1D57F", "U+1D580", "U+1D581", "U+1D582", "U+1D583", "U+1D584", "U+1D585", "U+1D586",
      "U+1D587", "U+1D588", "U+1D589", "U+1D58A", "U+1D58B", "U+1D58C", "U+1D58D", "U+1D58E",
      "U+1D58F", "U+1D590", "U+1D591", "U+1D592", "U+1D593", "U+1D594", "U+1D595", "U+1D596",
      "U+1D597", "U+1D598", "U+1D599", "U+1D59A", "U+1D59B", "U+1D59C", "U+1D59D", "U+1D59E",
      "U+1D59F", "U+1D5A0", "U+1D5A1", "U+1D5A2", "U+1D5A3", "U+1D5A4", "U+1D5A5", "U+1D5A6",
      "U+1D5A7", "U+1D5A8", "U+1D5A9", "U+1D5AA", "U+1D5AB", "U+1D5AC", "U+1D5AD", "U+1D5AE",
      "U+1D5AF", "U+1D5B0", "U+1D5B1", "U+1D5B2", "U+1D5B3", "U+1D5B4", "U+1D5B5", "U+1D5B6",
      "U+1D5B7", "U+1D5B8", "U+1D5B9", "U+1D5BA", "U+1D5BB", "U+1D5BC", "U+1D5BD", "U+1D5BE",
      "U+1D5BF", "U+1D5C0", "U+1D5C1", "U+1D5C2", "U+1D5C3", "U+1D5C4", "U+1D5C5", "U+1D5C6",
      "U+1D5C7", "U+1D5C8", "U+1D5C9", "U+1D5CA", "U+1D5CB", "U+1D5CC", "U+1D5CD", "U+1D5CE",
      "U+1D5CF", "U+1D5D0", "U+1D5D1", "U+1D5D2", "U+1D5D3", "U+1D5D4", "U+1D5D5", "U+1D5D6",
      "U+1D5D7", "U+1D5D8", "U+1D5D9", "U+1D5DA", "U+1D5DB", "U+1D5DC", "U+1D5DD", "U+1D5DE",
      "U+1D5DF", "U+1D5E0", "U+1D5E1", "U+1D5E2", "U+1D5E3", "U+1D5E4", "U+1D5E5", "U+1D5E6",
      "U+1D5E7", "U+1D5E8", "U+1D5E9", "U+1D5EA", "U+1D5EB", "U+1D5EC", "U+1D5ED", "U+1D5EE",
      "U+1D5EF", "U+1D5F0", "U+1D5F1", "U+1D5F2", "U+1D5F3", "U+1D5F4", "U+1D5F5", "U+1D5F6",
      "U+1D5F7", "U+1D5F8", "U+1D5F9", "U+1D5FA", "U+1D5FB", "U+1D5FC", "U+1D5FD", "U+1D5FE",
      "U+1D5FF", "U+1D600", "U+1D601", "U+1D602", "U+1D603", "U+1D604", "U+1D605", "U+1D606",
      "U+1D607", "U+1D608", "U+1D609", "U+1D60A", "U+1D60B", "U+1D60C", "U+1D60D", "U+1D60E",
      "U+1D60F", "U+1D610", "U+1D611", "U+1D612", "U+1D613", "U+1D614", "U+1D615", "U+1D616",
      "U+1D617", "U+1D618", "U+1D619", "U+1D61A", "U+1D61B", "U+1D61C", "U+1D61D", "U+1D61E",
      "U+1D61F", "U+1D620", "U+1D621", "U+1D622", "U+1D623", "U+1D624", "U+1D625", "U+1D626",
      "U+1D627", "U+1D628", "U+1D629", "U+1D62A", "U+1D62B", "U+1D62C", "U+1D62D", "U+1D62E",
      "U+1D62F", "U+1D630", "U+1D631", "U+1D632", "U+1D633", "U+1D634", "U+1D635", "U+1D636",
      "U+1D637", "U+1D638", "U+1D639", "U+1D63A", "U+1D63B", "U+1D63C", "U+1D63D", "U+1D63E",
      "U+1D63F", "U+1D640", "U+1D641", "U+1D642", "U+1D643", "U+1D644", "U+1D645", "U+1D646",
      "U+1D647", "U+1D648", "U+1D649", "U+1D64A", "U+1D64B", "U+1D64C", "U+1D64D", "U+1D64E",
      "U+1D64F", "U+1D650", "U+1D651", "U+1D652", "U+1D653", "U+1D654", "U+1D655", "U+1D656",
      "U+1D657", "U+1D658", "U+1D659", "U+1D65A", "U+1D65B", "U+1D65C", "U+1D65D", "U+1D65E",
      "U+1D65F", "U+1D660", "U+1D661", "U+1D662", "U+1D663", "U+1D664", "U+1D665", "U+1D666",
      "U+1D667", "U+1D668", "U+1D669", "U+1D66A", "U+1D66B", "U+1D66C", "U+1D66D", "U+1D66E",
      "U+1D66F", "U+1D670", "U+1D671", "U+1D672", "U+1D673", "U+1D674", "U+1D675", "U+1D676",
      "U+1D677", "U+1D678", "U+1D679", "U+1D67A", "U+1D67B", "U+1D67C", "U+1D67D", "U+1D67E",
      "U+1D67F", "U+1D680", "U+1D681", "U+1D682", "U+1D683", "U+1D684", "U+1D685", "U+1D686",
      "U+1D687", "U+1D688", "U+1D689", "U+1D68A", "U+1D68B", "U+1D68C", "U+1D68D", "U+1D68E",
      "U+1D68F", "U+1D690", "U+1D691", "U+1D692", "U+1D693", "U+1D694", "U+1D695", "U+1D696",
      "U+1D697", "U+1D698", "U+1D699", "U+1D69A", "U+1D69B", "U+1D69C", "U+1D69D", "U+1D69E",
      "U+1D69F", "U+1D6A0", "U+1D6A1", "U+1D6A2", "U+1D6A3", "U+1D6A4", "U+1D6A5", "U+1D6A8",
      "U+1D6A9", "U+1D6AA", "U+1D6AB", "U+1D6AC", "U+1D6AD", "U+1D6AE", "U+1D6AF", "U+1D6B0",
      "U+1D6B1", "U+1D6B2", "U+1D6B3", "U+1D6B4", "U+1D6B5", "U+1D6B6", "U+1D6B7", "U+1D6B8",
      "U+1D6B9", "U+1D6BA", "U+1D6BB", "U+1D6BC", "U+1D6BD", "U+1D6BE", "U+1D6BF", "U+1D6C0",
      "U+1D6C2", "U+1D6C3", "U+1D6C4", "U+1D6C5", "U+1D6C6", "U+1D6C7", "U+1D6C8", "U+1D6C9",
      "U+1D6CA", "U+1D6CB", "U+1D6CC", "U+1D6CD", "U+1D6CE", "U+1D6CF", "U+1D6D0", "U+1D6D1",
      "U+1D6D2", "U+1D6D3", "U+1D6D4", "U+1D6D5", "U+1D6D6", "U+1D6D7", "U+1D6D8", "U+1D6D9",
      "U+1D6DA", "U+1D6DC", "U+1D6DD", "U+1D6DE", "U+1D6DF", "U+1D6E0", "U+1D6E1", "U+1D6E2",
      "U+1D6E3", "U+1D6E4", "U+1D6E5", "U+1D6E6", "U+1D6E7", "U+1D6E8", "U+1D6E9", "U+1D6EA",
      "U+1D6EB", "U+1D6EC", "U+1D6ED", "U+1D6EE", "U+1D6EF", "U+1D6F0", "U+1D6F1", "U+1D6F2",
      "U+1D6F3", "U+1D6F4", "U+1D6F5", "U+1D6F6", "U+1D6F7", "U+1D6F8", "U+1D6F9", "U+1D6FA",
      "U+1D6FC", "U+1D6FD", "U+1D6FE", "U+1D6FF", "U+1D700", "U+1D701", "U+1D702", "U+1D703",
      "U+1D704", "U+1D705", "U+1D706", "U+1D707", "U+1D708", "U+1D709", "U+1D70A", "U+1D70B",
      "U+1D70C", "U+1D70D", "U+1D70E", "U+1D70F", "U+1D710", "U+1D711", "U+1D712", "U+1D713",
      "U+1D714", "U+1D716", "U+1D717", "U+1D718", "U+1D719", "U+1D71A", "U+1D71B", "U+1D71C",
      "U+1D71D", "U+1D71E", "U+1D71F", "U+1D720", "U+1D721", "U+1D722", "U+1D723", "U+1D724",
      "U+1D725", "U+1D726", "U+1D727", "U+1D728", "U+1D729", "U+1D72A", "U+1D72B", "U+1D72C",
      "U+1D72D", "U+1D72E", "U+1D72F", "U+1D730", "U+1D731", "U+1D732", "U+1D733", "U+1D734",
      "U+1D736", "U+1D737", "U+1D738", "U+1D739", "U+1D73A", "U+1D73B", "U+1D73C", "U+1D73D",
      "U+1D73E", "U+1D73F", "U+1D740", "U+1D741", "U+1D742", "U+1D743", "U+1D744", "U+1D745",
      "U+1D746", "U+1D747", "U+1D748", "U+1D749", "U+1D74A", "U+1D74B", "U+1D74C", "U+1D74D",
      "U+1D74E", "U+1D750", "U+1D751", "U+1D752", "U+1D753", "U+1D754", "U+1D755", "U+1D756",
      "U+1D757", "U+1D758", "U+1D759", "U+1D75A", "U+1D75B", "U+1D75C", "U+1D75D", "U+1D75E",
      "U+1D75F", "U+1D760", "U+1D761", "U+1D762", "U+1D763", "U+1D764", "U+1D765", "U+1D766",
      "U+1D767", "U+1D768", "U+1D769", "U+1D76A", "U+1D76B", "U+1D76C", "U+1D76D", "U+1D76E",
      "U+1D770", "U+1D771", "U+1D772", "U+1D773", "U+1D774", "U+1D775", "U+1D776", "U+1D777",
      "U+1D778", "U+1D779", "U+1D77A", "U+1D77B", "U+1D77C", "U+1D77D", "U+1D77E", "U+1D77F",
      "U+1D780", "U+1D781", "U+1D782", "U+1D783", "U+1D784", "U+1D785", "U+1D786", "U+1D787",
      "U+1D788", "U+1D78A", "U+1D78B", "U+1D78C", "U+1D78D", "U+1D78E", "U+1D78F", "U+1D790",
      "U+1D791", "U+1D792", "U+1D793", "U+1D794", "U+1D795", "U+1D796", "U+1D797", "U+1D798",
      "U+1D799", "U+1D79A", "U+1D79B", "U+1D79C", "U+1D79D", "U+1D79E", "U+1D79F", "U+1D7A0",
      "U+1D7A1", "U+1D7A2", "U+1D7A3", "U+1D7A4", "U+1D7A5", "U+1D7A6", "U+1D7A7", "U+1D7A8",
      "U+1D7AA", "U+1D7AB", "U+1D7AC", "U+1D7AD", "U+1D7AE", "U+1D7AF", "U+1D7B0", "U+1D7B1",
      "U+1D7B2", "U+1D7B3", "U+1D7B4", "U+1D7B5", "U+1D7B6", "U+1D7B7", "U+1D7B8", "U+1D7B9",
      "U+1D7BA", "U+1D7BB", "U+1D7BC", "U+1D7BD", "U+1D7BE", "U+1D7BF", "U+1D7C0", "U+1D7C1",
      "U+1D7C2", "U+1D7C4", "U+1D7C5", "U+1D7C6", "U+1D7C7", "U+1D7C8", "U+1D7C9", "U+1D7CA",
      "U+1D7CB", "U+1DF00", "U+1DF01", "U+1DF02", "U+1DF03", "U+1DF04", "U+1DF05", "U+1DF06",
      "U+1DF07", "U+1DF08", "U+1DF09", "U+1DF0B", "U+1DF0C", "U+1DF0D", "U+1DF0E", "U+1DF0F",
      "U+1DF10", "U+1DF11", "U+1DF12", "U+1DF13", "U+1DF14", "U+1DF15", "U+1DF16", "U+1DF17",
      "U+1DF18", "U+1DF19", "U+1DF1A", "U+1DF1B", "U+1DF1C", "U+1DF1D", "U+1DF1E", "U+1E900",
      "U+1E901", "U+1E902", "U+1E903", "U+1E904", "U+1E905", "U+1E906", "U+1E907", "U+1E908",
      "U+1E909", "U+1E90A", "U+1E90B", "U+1E90C", "U+1E90D", "U+1E90E", "U+1E90F", "U+1E910",
      "U+1E911", "U+1E912", "U+1E913", "U+1E914", "U+1E915", "U+1E916", "U+1E917", "U+1E918",
      "U+1E919", "U+1E91A", "U+1E91B", "U+1E91C", "U+1E91D", "U+1E91E", "U+1E91F", "U+1E920",
      "U+1E921", "U+1E922", "U+1E923", "U+1E924", "U+1E925", "U+1E926", "U+1E927", "U+1E928",
      "U+1E929", "U+1E92A", "U+1E92B", "U+1E92C", "U+1E92D", "U+1E92E", "U+1E92F", "U+1E930",
      "U+1E931", "U+1E932", "U+1E933", "U+1E934", "U+1E935", "U+1E936", "U+1E937", "U+1E938",
      "U+1E939", "U+1E93A", "U+1E93B", "U+1E93C", "U+1E93D", "U+1E93E", "U+1E93F", "U+1E940",
      "U+1E941", "U+1E942", "U+1E943", "U+1F130", "U+1F131", "U+1F132", "U+1F133", "U+1F134",
      "U+1F135", "U+1F136", "U+1F137", "U+1F138", "U+1F139", "U+1F13A", "U+1F13B", "U+1F13C",
      "U+1F13D", "U+1F13E", "U+1F13F", "U+1F140", "U+1F141", "U+1F142", "U+1F143", "U+1F144",
      "U+1F145", "U+1F146", "U+1F147", "U+1F148", "U+1F149", "U+1F150", "U+1F151", "U+1F152",
      "U+1F153", "U+1F154", "U+1F155", "U+1F156", "U+1F157", "U+1F158", "U+1F159", "U+1F15A",
      "U+1F15B", "U+1F15C", "U+1F15D", "U+1F15E", "U+1F15F", "U+1F160", "U+1F161", "U+1F162",
      "U+1F163", "U+1F164", "U+1F165", "U+1F166", "U+1F167", "U+1F168", "U+1F169", "U+1F170",
      "U+1F171", "U+1F172", "U+1F173", "U+1F174", "U+1F175", "U+1F176", "U+1F177", "U+1F178",
      "U+1F179", "U+1F17A", "U+1F17B", "U+1F17C", "U+1F17D", "U+1F17E", "U+1F17F", "U+1F180",
      "U+1F181", "U+1F182", "U+1F183", "U+1F184", "U+1F185", "U+1F186", "U+1F187", "U+1F188",
      "U+1F189" }

\* The characters that str.lower skips when it looks for a final sigma.
CaseIgnorableChars ==
    { "U+0027", ".", ":", "U+005E", "U+0060", "U+00A8", "U+00AD", "U+00AF",
      "U+00B4", "U+00B7", "U+00B8", "U+02B0", "U+02B1", "U+02B2", "U+02B3", "U+02B4",
      "U+02B5", "U+02B6", "U+02B7", "U+02B8", "U+02B9", "U+02BA", "U+02BB", "U+02BC",
      "U+02BD", "U+02BE", "U+02BF", "U+02C0", "U+02C1", "U+02C2", "U+02C3", "U+02C4",
      "U+02C5", "U+02C6", "U+02C7", "U+02C8", "U+02C9", "U+02CA", "U+02CB", "U+02CC",
      "U+02CD", "U+02CE", "U+02CF", "U+02D0", "U+02D1", "U+02D2", "U+02D3", "U+02D4",
      "U+02D5", "U+02D6", "U+02D7", "U+02D8", "U+02D9", "U+02DA", "U+02DB", "U+02DC",
      "U+02DD", "U+02DE", "U+02DF", "U+02E0", "U+02E1", "U+02E2", "U+02E3", "U+02E4",
      "U+02E5", "U+02E6", "U+02E7", "U+02E8", "U+02E9", "U+02EA", "U+02EB", "U+02EC",
      "U+02ED", "U+02EE", "U+02EF", "U+02F0", "U+02F1", "U+02F2", "U+02F3", "U+02F4",
      "U+02F5", "U+02F6", "U+02F7", "U+02F8", "U+02F9", "U+02FA", "U+02FB", "U+02FC",
      "U+02FD", "U+02FE", "U+02FF", "U+0300", "U+0301", "U+0302", "U+0303", "U+0304",
      "U+0305", "U+0306", "U+0307", "U+0308", "U+0309", "U+030A", "U+030B", "U+030C",
      "U+030D", "U+030E", "U+030F", "U+0310", "U+0311", "U+0312", "U+0313", "U+0314",
      "U+0315", "U+0316", "U+0317", "U+0318", "U+0319", "U+031A", "U+031B", "U+031C",
      "U+031D", "U+031E", "U+031F", "U+0320", "U+0321", "U+0322", "U+0323", "U+0324",
      "U+0325", "U+0326", "U+0327", "U+0328", "U+0329", "U+032A", "U+032B", "U+032C",
      "U+032D", "U+032E", "U+032F", "U+0330", "U+0331", "U+0332", "U+0333", "U+0334",
      "U+0335", "U+0336", "U+0337", "U+0338", "U+0339", "U+033A", "U+033B", "U+033C",
      "U+033D", "U+033E", "U+033F", "U+0340", "U+0341", "U+0342", "U+0343", "U+0344",
      "U+0345", "U+0346", "U+0347", "U+0348", "U+0349", "U+034A", "U+034B", "U+034C",
      "U+034D", "U+034E", "U+034F", "U+0350", "U+0351", "U+0352", "U+0353", "U+0354",
      "U+0355", "U+0356", "U+0357", "U+0358", "U+0359", "U+035A", "U+035B", "U+035C",
      "U+035D", "U+035E", "U+035F", "U+0360", "U+0361", "U+0362", "U+0363", "U+0364",
      "U+0365", "U+0366", "U+0367", "U+0368", "U+0369", "U+036A", "U+036B", "U+036C",
      "U+036D", "U+036E", "U+036F", "U+0374", "U+0375", "U+037A", "U+0384", "U+0385",
      "U+0387", "U+0483", "U+0484", "U+0485", "U+0486", "U+0487", "U+0488", "U+0489",
      "U+0559", "U+055F", "U+0591", "U+0592", "U+0593", "U+0594", "U+0595", "U+0596",
      "U+0597", "U+0598", "U+0599", "U+059A", "U+059B", "U+059C", "U+059D", "U+059E",
      "U+059F", "U+05A0", "U+05A1", "U+05A2", "U+05A3", "U+05A4", "U+05A5", "U+05A6",
      "U+05A7", "U+05A8", "U+05A9", "U+05AA", "U+05AB", "U+05AC", "U+05AD", "U+05AE",
      "U+05AF", "U+05B0", "U+05B1", "U+05B2", "U+05B3", "U+05B4", "U+05B5", "U+05B6",
      "U+05B7", "U+05B8", "U+05B9", "U+05BA", "U+05BB", "U+05BC", "U+05BD", "U+05BF",
      "U+05C1", "U+05C2", "U+05C4", "U+05C5", "U+05C7", "U+05F4", "U+0600", "U+0601",
      "U+0602", "U+0603", "U+0604", "U+0605", "U+0610", "U+0611", "U+0612", "U+0613",
      "U+0614", "U+0615", "U+0616", "U+0617", "U+0618", "U+0619", "U+061A", "U+061C",
      "U+0640", "U+064B", "U+064C", "U+064D", "U+064E", "U+064F", "U+0650", "U+0651",
      "U+0652", "U+0653", "U+0654", "U+0655", "U+0656", "U+0657", "U+0658", "U+0659",
      "U+065A", "U+065B", "U+065C", "U+065D", "U+065E", "U+065F", "U+0670", "U+06D6",
      "U+06D7", "U+06D8", "U+06D9", "U+06DA", "U+06DB", "U+06DC", "U+06DD", "U+06DF",
      "U+06E0", "U+06E1", "U+06E2", "U+06E3", "U+06E4", "U+06E5", "U+06E6", "U+06E7",
      "U+06E8", "U+06EA", "U+06EB", "U+06EC", "U+06ED", "U+070F", "U+0711", "U+0730",
      "U+0731", "U+0732", "U+0733", "U+0734", "U+0735", "U+0736", "U+0737", "U+0738",
      "U+0739", "U+073A", "U+073B", "U+073C", "U+073D", "U+073E", "U+073F", "U+0740",
      "U+0741", "U+0742", "U+0743", "U+0744", "U+0745", "U+0746", "U+0747", "U+0748",
      "U+0749", "U+074A", "U+07A6", "U+07A7", "U+07A8", "U+07A9", "U+07AA", "U+07AB",
      "U+07AC", "U+07AD", "U+07AE", "U+07AF", "U+07B0", "U+07EB", "U+07EC", "U+07ED",
      "U+07EE", "U+07EF", "U+07F0", "U+07F1", "U+07F2", "U+07F3", "U+07F4", "U+07F5",
      "U+07FA", "U+07FD", "U+0816", "U+0817", "U+0818", "U+0819", "U+081A", "U+081B",
      "U+081C", "U+081D", "U+081E", "U+081F", "U+0820", "U+0821", "U+0822", "U+0823",
      "U+0824", "U+0825", "U+0826", "U+0827", "U+0828", "U+0829", "U+082A", "U+082B",
      "U+082C", "U+082D", "U+0859", "U+085A", "U+085B", "U+0888", "U+0890", "U+0891",
      "U+0898", "U+0899", "U+089A", "U+089B", "U+089C", "U+089D", "U+089E", "U+089F",
      "U+08C9", "U+08CA", "U+08CB", "U+08CC", "U+08CD", "U+08CE", "U+08CF", "U+08D0",
      "U+08D1", "U+08D2", "U+08D3", "U+08D4", "U+08D5", "U+08D6", "U+08D7", "U+08D8",
      "U+08D9", "U+08DA", "U+08DB", "U+08DC", "U+08DD", "U+08DE", "U+08DF", "U+08E0",
      "U+08E1", "U+08E2", "U+08E3", "U+08E4", "U+08E5", "U+08E6", "U+08E7", "U+08E8",
      "U+08E9", "U+08EA", "U+08EB", "U+08EC", "U+08ED", "U+08EE", "U+08EF", "U+08F0",
      "U+08F1", "U+08F2", "U+08F3", "U+08F4", "U+08F5", "U+08F6", "U+08F7", "U+08F8",
      "U+08F9", "U+08FA", "U+08FB", "U+08FC", "U+08FD", "U+08FE", "U+08FF", "U+0900",
      "U+0901", "U+0902", "U+093A", "U+093C", "U+0941", "U+0942", "U+0943", "U+0944",
      "U+0945", "U+0946", "U+0947", "U+0948", "U+094D", "U+0951", "U+0952", "U+0953",
      "U+0954", "U+0955", "U+0956", "U+0957", "U+0962", "U+0963", "U+0971", "U+0981",
      "U+09BC", "U+09C1", "U+09C2", "U+09C3", "U+09C4", "U+09CD", "U+09E2", "U+09E3",
      "U+09FE", "U+0A01", "U+0A02", "U+0A3C", "U+0A41", "U+0A42", "U+0A47", "U+0A48",
      "U+0A4B", "U+0A4C", "U+0A4D", "U+0A51", "U+0A70", "U+0A71", "U+0A75", "U+0A81",
      "U+0A82", "U+0ABC", "U+0AC1", "U+0AC2", "U+0AC3", "U+0AC4", "U+0AC5", "U+0AC7",
      "U+0AC8", "U+0ACD", "U+0AE2", "U+0AE3", "U+0AFA", "U+0AFB", "U+0AFC", "U+0AFD",
      "U+0AFE", "U+0AFF", "U+0B01", "U+0B3C", "U+0B3F", "U+0B41", "U+0B42", "U+0B43",
      "U+0B44", "U+0B4D", "U+0B55", "U+0B56", "U+0B62", "U+0B63", "U+0B82", "U+0BC0",
      "U+0BCD", "U+0C00", "U+0C04", "U+0C3C", "U+0C3E", "U+0C3F", "U+0C40", "U+0C46",
      "U+0C47", "U+0C48", "U+0C4A", "U+0C4B", "U+0C4C", "U+0C4D", "U+0C55", "U+0C56",
      "U+0C62", "U+0C63", "U+0C81", "U+0CBC", "U+0CBF", "U+0CC6", "U+0CCC", "U+0CCD",
      "U+0CE2", "U+0CE3", "U+0D00", "U+0D01", "U+0D3B", "U+0D3C", "U+0D41", "U+0D42",
      "U+0D43", "U+0D44", "U+0D4D", "U+0D62", "U+0D63", "U+0D81", "U+0DCA", "U+0DD2",
      "U+0DD3", "U+0DD4", "U+0DD6", "U+0E31", "U+0E34", "U+0E35", "U+0E36", "U+0E37",
      "U+0E38", "U+0E39", "U+0E3A", "U+0E46", "U+0E47", "U+0E48", "U+0E49", "U+0E4A",
      "U+0E4B", "U+0E4C", "U+0E4D", "U+0E4E", "U+0EB1", "U+0EB4", "U+0EB5", "U+0EB6",
      "U+0EB7", "U+0EB8", "U+0EB9", "U+0EBA", "U+0EBB", "U+0EBC", "U+0EC6", "U+0EC8",
      "U+0EC9", "U+0ECA", "U+0ECB", "U+0ECC", "U+0ECD", "U+0F18", "U+0F19", "U+0F35",
      "U+0F37", "U+0F39", "U+0F71", "U+0F72", "U+0F73", "U+0F74", "U+0F75", "U+0F76",
      "U+0F77", "U+0F78", "U+0F79", "U+0F7A", "U+0F7B", "U+0F7C", "U+0F7D", "U+0F7E",
      "U+0F80", "U+0F81", "U+0F82", "U+0F83", "U+0F84", "U+0F86", "U+0F87", "U+0F8D",
      "U+0F8E", "U+0F8F", "U+0F90", "U+0F91", "U+0F92", "U+0F93", "U+0F94", "U+0F95",
      "U+0F96", "U+0F97", "U+0F99", "U+0F9A", "U+0F9B", "U+0F9C", "U+0F9D", "U+0F9E",
      "U+0F9F", "U+0FA0", "U+0FA1", "U+0FA2", "U+0FA3", "U+0FA4", "U+0FA5", "U+0FA6",
      "U+0FA7", "U+0FA8", "U+0FA9", "U+0FAA", "U+0FAB", "U+0FAC", "U+0FAD", "U+0FAE",
      "U+0FAF", "U+0FB0", "U+0FB1", "U+0FB2", "U+0FB3", "U+0FB4", "U+0FB5", "U+0FB6",
      "U+0FB7", "U+0FB8", "U+0FB9", "U+0FBA", "U+0FBB", "U+0FBC", "U+0FC6", "U+102D",
      "U+102E", "U+102F", "U+1030", "U+1032", "U+1033", "U+1034", "U+1035", "U+1036",
      "U+1037", "U+1039", "U+103A", "U+103D", "U+103E", "U+1058", "U+1059", "U+105E",
      "U+105F", "U+1060", "U+1071", "U+1072", "U+1073", "U+1074", "U+1082", "U+1085",
      "U+1086", "U+108D", "U+109D", "U+10FC", "U+135D", "U+135E", "U+135F", "U+1712",
      "U+1713", "U+1714", "U+1732", "U+1733", "U+1752", "U+1753", "U+1772", "U+1773",
      "U+17B4", "U+17B5", "U+17B7", "U+17B8", "U+17B9", "U+17BA", "U+17BB", "U+17BC",
      "U+17BD", "U+17C6", "U+17C9", "U+17CA", "U+17CB", "U+17CC", "U+17CD", "U+17CE",
      "U+17CF", "U+17D0", "U+17D1", "U+17D2", "U+17D3", "U+17D7", "U+17DD", "U+180B",
      "U+180C", "U+180D", "U+180E", "U+180F", "U+1843", "U+1885", "U+1886", "U+18A9",
      "U+1920", "U+1921", "U+1922", "U+1927", "U+1928", "U+1932", "U+1939", "U+193A",
      "U+193B", "U+1A17", "U+1A18", "U+1A1B", "U+1A56", "U+1A58", "U+1A59", "U+1A5A",
      "U+1A5B", "U+1A5C", "U+1A5D", "U+1A5E", "U+1A60", "U+1A62", "U+1A65", "U+1A66",
      "U+1A67", "U+1A68", "U+1A69", "U+1A6A", "U+1A6B", "U+1A6C", "U+1A73", "U+1A74",
      "U+1A75", "U+1A76", "U+1A77", "U+1A78", "U+1A79", "U+1A7A", "U+1A7B", "U+1A7C",
      "U+1A7F", "U+1AA7", "U+1AB0", "U+1AB1", "U+1AB2", "U+1AB3", "U+1AB4", "U+1AB5",
      "U+1AB6", "U+1AB7", "U+1AB8", "U+1AB9", "U+1ABA", "U+1ABB", "U+1ABC", "U+1ABD",
      "U+1ABE", "U+1ABF", "U+1AC0", "U+1AC1", "U+1AC2", "U+1AC3", "U+1AC4", "U+1AC5",
      "U+1AC6", "U+1AC7", "U+1AC8", "U+1AC9", "U+1ACA", "U+1ACB", "U+1ACC", "U+1ACD",
      "U+1ACE", "U+1B00", "U+1B01", "U+1B02", "U+1B03", "U+1B34", "U+1B36", "U+1B37",
      "U+1B38", "U+1B39", "U+1B3A", "U+1B3C", "U+1B42", "U+1B6B", "U+1B6C", "U+1B6D",
      "U+1B6E", "U+1B6F", "U+1B70", "U+1B71", "U+1B72", "U+1B73", "U+1B80", "U+1B81",
      "U+1BA2", "U+1BA3", "U+1BA4", "U+1BA5", "U+1BA8", "U+1BA9", "U+1BAB", "U+1BAC",
      "U+1BAD", "U+1BE6", "U+1BE8", "U+1BE9", "U+1BED", "U+1BEF", "U+1BF0", "U+1BF1",
      "U+1C2C", "U+1C2D", "U+1C2E", "U+1C2F", "U+1C30", "U+1C31", "U+1C32", "U+1C33",
      "U+1C36", "U+1C37", "U+1C78", "U+1C79", "U+1C7A", "U+1C7B", "U+1C7C", "U+1C7D",
      "U+1CD0", "U+1CD1", "U+1CD2", "U+1CD4", "U+1CD5", "U+1CD6", "U+1CD7", "U+1CD8",
      "U+1CD9", "U+1CDA", "U+1CDB", "U+1CDC", "U+1CDD", "U+1CDE", "U+1CDF", "U+1CE0",
      "U+1CE2", "U+1CE3", "U+1CE4", "U+1CE5", "U+1CE6", "U+1CE7", "U+1CE8", "U+1CED",
      "U+1CF4", "U+1CF8", "U+1CF9", "U+1D2C", "U+1D2D", "U+1D2E", "U+1D2F", "U+1D30",
      "U+1D31", "U+1D32", "U+1D33", "U+1D34", "U+1D35", "U+1D36", "U+1D37", "U+1D38",
      "U+1D39", "U+1D3A", "U+1D3B", "U+1D3C", "U+1D3D", "U+1D3E", "U+1D3F", "U+1D40",
      "U+1D41", "U+1D42", "U+1D43", "U+1D44", "U+1D45", "U+1D46", "U+1D47", "U+1D48",
      "U+1D49", "U+1D4A", "U+1D4B", "U+1D4C", "U+1D4D", "U+1D4E", "U+1D4F", "U+1D50",
      "U+1D51", "U+1D52", "U+1D53", "U+1D54", "U+1D55", "U+1D56", "U+1D57", "U+1D58",
      "U+1D59", "U+1D5A", "U+1D5B", "U+1D5C", "U+1D5D", "U+1D5E", "U+1D5F", "U+1D60",
      "U+1D61", "U+1D62", "U+1D63", "U+1D64", "U+1D65", "U+1D66", "U+1D67", "U+1D68",
      "U+1D69", "U+1D6A", "U+1D78", "U+1D9B", "U+1D9C", "U+1D9D", "U+1D9E", "U+1D9F",
      "U+1DA0", "U+1DA1", "U+1DA2", "U+1DA3", "U+1DA4", "U+1DA5", "U+1DA6", "U+1DA7",
      "U+1DA8", "U+1DA9", "U+1DAA", "U+1DAB", "U+1DAC", "U+1DAD", "U+1DAE", "U+1DAF",
      "U+1DB0", "U+1DB1", "U+1DB2", "U+1DB3", "U+1DB4", "U+1DB5", "U+1DB6", "U+1DB7",
      "U+1DB8", "U+1DB9", "U+1DBA", "U+1DBB", "U+1DBC", "U+1DBD", "U+1DBE", "U+1DBF",
      "U+1DC0", "U+1DC1", "U+1DC2", "U+1DC3", "U+1DC4", "U+1DC5", "U+1DC6", "U+1DC7",
      "U+1DC8", "U+1DC9", "U+1DCA", "U+1DCB", "U+1DCC", "U+1DCD", "U+1DCE", "U+1DCF",
      "U+1DD0", "U+1DD1", "U+1DD2", "U+1DD3", "U+1DD4", "U+1DD5", "U+1DD6", "U+1DD7",
      "U+1DD8", "U+1DD9", "U+1DDA", "U+1DDB", "U+1DDC", "U+1DDD", "U+1DDE", "U+1DDF",
      "U+1DE0", "U+1DE1", "U+1DE2", "U+1DE3", "U+1DE4", "U+1DE5", "U+1DE6", "U+1DE7",
      "U+1DE8", "U+1DE9", "U+1DEA", "U+1DEB", "U+1DEC", "U+1DED", "U+1DEE", "U+1DEF",
      "U+1DF0", "U+1DF1", "U+1DF2", "U+1DF3", "U+1DF4", "U+1DF5", "U+1DF6", "U+1DF7",
      "U+1DF8", "U+1DF9", "U+1DFA", "U+1DFB", "U+1DFC", "U+1DFD", "U+1DFE", "U+1DFF",
      "U+1FBD", "U+1FBF", "U+1FC0", "U+1FC1", "U+1FCD", "U+1FCE", "U+1FCF", "U+1FDD",
      "U+1FDE", "U+1FDF", "U+1FED", "U+1FEE", "U+1FEF", "U+1FFD", "U+1FFE", "U+200B",
      "U+200C", "U+200D", "U+200E", "U+200F", "U+2018", "U+2019", "U+2024", "U+2027",
      "U+202A", "U+202B", "U+202C", "U+202D", "U+202E", "U+2060", "U+2061", "U+2062",
      "U+2063", "U+2064", "U+2066", "U+2067", "U+2068", "U+2069", "U+206A", "U+206B",
      "U+206C", "U+206D", "U+206E", "U+206F", "U+2071", "U+207F", "U+2090", "U+2091",
      "U+2092", "U+2093", "U+2094", "U+2095", "U+2096", "U+2097", "U+2098", "U+2099",
      "U+209A", "U+209B", "U+209C", "U+20D0", "U+20D1", "U+20D2", "U+20D3", "U+20D4",
      "U+20D5", "U+20D6", "U+20D7", "U+20D8", "U+20D9", "U+20DA", "U+20DB", "U+20DC",
      "U+20DD", "U+20DE", "U+20DF", "U+20E0", "U+20E1", "U+20E2", "U+20E3", "U+20E4",
      "U+20E5", "U+20E6", "U+20E7", "U+20E8", "U+20E9", "U+20EA", "U+20EB", "U+20EC",
      "U+20ED", "U+20EE", "U+20EF", "U+20F0", "U+2C7C", "U+2C7D", "U+2CEF", "U+2CF0",
      "U+2CF1", "U+2D6F", "U+2D7F", "U+2DE0", "U+2DE1", "U+2DE2", "U+2DE3", "U+2DE4",
      "U+2DE5", "U+2DE6", "U+2DE7", "U+2DE8", "U+2DE9", "U+2DEA", "U+2DEB", "U+2DEC",
      "U+2DED", "U+2DEE", "U+2DEF", "U+2DF0", "U+2DF1", "U+2DF2", "U+2DF3", "U+2DF4",
      "U+2DF5", "U+2DF6", "U+2DF7", "U+2DF8", "U+2DF9", "U+2DFA", "U+2DFB", "U+2DFC",
      "U+2DFD", "U+2DFE", "U+2DFF", "U+2E2F", "U+3005", "U+302A", "U+302B", "U+302C",
      "U+302D", "U+3031", "U+3032", "U+3033", "U+3034", "U+3035", "U+303B", "U+3099",
      "U+309A", "U+309B", "U+309C", "U+309D", "U+309E", "U+30FC", "U+30FD", "U+30FE",
      "U+A015", "U+A4F8", "U+A4F9", "U+A4FA", "U+A4FB", "U+A4FC", "U+A4FD", "U+A60C",
      "U+A66F", "U+A670", "U+A671", "U+A672", "U+A674", "U+A675", "U+A676", "U+A677",
      "U+A678", "U+A679", "U+A67A", "U+A67B", "U+A67C", "U+A67D", "U+A67F", "U+A69C",
      "U+A69D", "U+A69E", "U+A69F", "U+A6F0", "U+A6F1", "U+A700", "U+A701", "U+A702",
      "U+A703", "U+A704", "U+A705", "U+A706", "U+A707", "U+A708", "U+A709", "U+A70A",
      "U+A70B", "U+A70C", "U+A70D", "U+A70E", "U+A70F", "U+A710", "U+A711", "U+A712",
      "U+A713", "U+A714", "U+A715", "U+A716", "U+A717", "U+A718", "U+A719", "U+A71A",
      "U+A71B", "U+A71C", "U+A71D", "U+A71E", "U+A71F", "U+A720", "U+A721", "U+A770",
      "U+A788", "U+A789", "U+A78A", "U+A7F2", "U+A7F3", "U+A7F4", "U+A7F8", "U+A7F9",
      "U+A802", "U+A806", "U+A80B", "U+A825", "U+A826", "U+A82C", "U+A8C4", "U+A8C5",
      "U+A8E0", "U+A8E1", "U+A8E2", "U+A8E3", "U+A8E4", "U+A8E5", "U+A8E6", "U+A8E7",
      "U+A8E8", "U+A8E9", "U+A8EA", "U+A8EB", "U+A8EC", "U+A8ED", "U+A8EE", "U+A8EF",
      "U+A8F0", "U+A8F1", "U+A8FF", "U+A926", "U+A927", "U+A928", "U+A929", "U+A92A",
      "U+A92B", "U+A92C", "U+A92D", "U+A947", "U+A948", "U+A949", "U+A94A", "U+A94B",
      "U+A94C", "U+A94D", "U+A94E", "U+A94F", "U+A950", "U+A951", "U+A980", "U+A981",
      "U+A982", "U+A9B3", "U+A9B6", "U+A9B7", "U+A9B8", "U+A9B9", "U+A9BC", "U+A9BD",
      "U+A9CF", "U+A9E5", "U+A9E6", "U+AA29", "U+AA2A", "U+AA2B", "U+AA2C", "U+AA2D",
      "U+AA2E", "U+AA31", "U+AA32", "U+AA35", "U+AA36", "U+AA43", "U+AA4C", "U+AA70",
      "U+AA7C", "U+AAB0", "U+AAB2", "U+AAB3", "U+AAB4", "U+AAB7", "U+AAB8", "U+AABE",
      "U+AABF", "U+AAC1", "U+AADD", "U+AAEC", "U+AAED", "U+AAF3", "U+AAF4", "U+AAF6",
      "U+AB5B", "U+AB5C", "U+AB5D", "U+AB5E", "U+AB5F", "U+AB69", "U+AB6A", "U+AB6B",
      "U+ABE5", "U+ABE8", "U+ABED", "U+FB1E", "U+FBB2", "U+FBB3", "U+FBB4", "U+FBB5",
      "U+FBB6", "U+FBB7", "U+FBB8", "U+FBB9", "U+FBBA", "U+FBBB", "U+FBBC", "U+FBBD",
      "U+FBBE", "U+FBBF", "U+FBC0", "U+FBC1", "U+FBC2", "U+FE00", "U+FE01", "U+FE02",
      "U+FE03", "U+FE04", "U+FE05", "U+FE06", "U+FE07", "U+FE08", "U+FE09", "U+FE0A",
      "U+FE0B", "U+FE0C", "U+FE0D", "U+FE0E", "U+FE0F", "U+FE13", "U+FE20", "U+FE21",
      "U+FE22", "U+FE23", "U+FE24", "U+FE25", "U+FE26", "U+FE27", "U+FE28", "U+FE29",
      "U+FE2A", "U+FE2B", "U+FE2C", "U+FE2D", "U+FE2E", "U+FE2F", "U+FE52", "U+FE55",
      "U+FEFF", "U+FF07", "U+FF0E", "U+FF1A", "U+FF3E", "U+FF40", "U+FF70", "U+FF9E",
      "U+FF9F", "U+FFE3", "U+FFF9", "U+FFFA", "U+FFFB", "U+101FD", "U+102E0", "U+10376",
      "U+10377", "U+10378", "U+10379", "U+1037A", "U+10780", "U+10781", "U+10782", "U+10783",
      "U+10784", "U+10785", "U+10787", "U+10788", "U+10789", "U+1078A", "U+1078B", "U+1078C",
      "U+1078D", "U+1078E", "U+1078F", "U+10790", "U+10791", "U+10792", "U+10793", "U+10794",
      "U+10795", "U+10796", "U+10797", "U+10798", "U+10799", "U+1079A", "U+1079B", "U+1079C",
      "U+1079D", "U+1079E", "U+1079F", "U+107A0", "U+107A1", "U+107A2", "U+107A3", "U+107A4",
      "U+107A5", "U+107A6", "U+107A7", "U+107A8", "U+107A9", "U+107AA", "U+107AB", "U+107AC",
      "U+107AD", "U+107AE", "U+107AF", "U+107B0", "U+107B2", "U+107B3", "U+107B4", "U+107B5",
      "U+107B6", "U+107B7", "U+107B8", "U+107B9", "U+107BA", "U+10A01", "U+10A02", "U+10A03",
      "U+10A05", "U+10A06", "U+10A0C", "U+10A0D", "U+10A0E", "U+10A0F", "U+10A38", "U+10A39",
      "U+10A3A", "U+10A3F", "U+10AE5", "U+10AE6", "U+10D24", "U+10D25", "U+10D26", "U+10D27",
      "U+10EAB", "U+10EAC", "U+10F46", "U+10F47", "U+10F48", "U+10F49", "U+10F4A", "U+10F4B",
      "U+10F4C", "U+10F4D", "U+10F4E", "U+10F4F", "U+10F50", "U+10F82", "U+10F83", "U+10F84",
      "U+10F85", "U+11001", "U+11038", "U+11039", "U+1103A", "U+1103B", "U+1103C", "U+1103D",
      "U+1103E", "U+1103F", "U+11040", "U+11041", "U+11042", "U+11043", "U+11044", "U+11045",
      "U+11046", "U+11070", "U+11073", "U+11074", "U+1107F", "U+11080", "U+11081", "U+110B3",
      "U+110B4", "U+110B5", "U+110B6", "U+110B9", "U+110BA", "U+110BD", "U+110C2", "U+110CD",
      "U+11100", "U+11101", "U+11102", "U+11127", "U+11128", "U+11129", "U+1112A", "U+1112B",
      "U+1112D", "U+1112E", "U+1112F", "U+11130", "U+11131", "U+11132", "U+11133", "U+11134",
      "U+11173", "U+11180", "U+11181", "U+111B6", "U+111B7", "U+111B8", "U+111B9", "U+111BA",
      "U+111BB", "U+111BC", "U+111BD", "U+111BE", "U+111C9", "U+111CA", "U+111CB", "U+111CC",
      "U+111CF", "U+1122F", "U+11230", "U+11231", "U+11234", "U+11236", "U+11237", "U+1123E",
      "U+112DF", "U+112E3", "U+112E4", "U+112E5", "U+112E6", "U+112E7", "U+112E8", "U+112E9",
      "U+112EA", "U+11300", "U+11301", "U+1133B", "U+1133C", "U+11340", "U+11366", "U+11367",
      "U+11368", "U+11369", "U+1136A", "U+1136B", "U+1136C", "U+11370", "U+11371", "U+11372",
      "U+11373", "U+11374", "U+11438", "U+11439", "U+1143A", "U+1143B", "U+1143C", "U+1143D",
      "U+1143E", "U+1143F", "U+11442", "U+11443", "U+11444", "U+11446", "U+1145E", "U+114B3",
      "U+114B4", "U+114B5", "U+114B6", "U+114B7", "U+114B8", "U+114BA", "U+114BF", "U+114C0",
      "U+114C2", "U+114C3", "U+115B2", "U+115B3", "U+115B4", "U+115B5", "U+115BC", "U+115BD",
      "U+115BF", "U+115C0", "U+115DC", "U+115DD", "U+11633", "U+11634", "U+11635", "U+11636",
      "U+11637", "U+11638", "U+11639", "U+1163A", "U+1163D", "U+1163F", "U+11640", "U+116AB",
      "U+116AD", "U+116B0", "U+116B1", "U+116B2", "U+116B3", "U+116B4", "U+116B5", "U+116B7",
      "U+1171D", "U+1171E", "U+1171F", "U+11722", "U+11723", "U+11724", "U+11725", "U+11727",
      "U+11728", "U+11729", "U+1172A", "U+1172B", "U+1182F", "U+11830", "U+11831", "U+11832",
      "U+11833", "U+11834", "U+11835", "U+11836", "U+11837", "U+11839", "U+1183A", "U+1193B",
      "U+1193C", "U+1193E", "U+11943", "U+119D4", "U+119D5", "U+119D6", "U+119D7", "U+119DA",
      "U+119DB", "U+119E0", "U+11A01", "U+11A02", "U+11A03", "U+11A04", "U+11A05", "U+11A06",
      "U+11A07", "U+11A08", "U+11A09", "U+11A0A", "U+11A33", "U+11A34", "U+11A35", "U+11A36",
      "U+11A37", "U+11A38", "U+11A3B", "U+11A3C", "U+11A3D", "U+11A3E", "U+11A47", "U+11A51",
      "U+11A52", "U+11A53", "U+11A54", "U+11A55", "U+11A56", "U+11A59", "U+11A5A", "U+11A5B",
      "U+11A8A", "U+11A8B", "U+11A8C", "U+11A8D", "U+11A8E", "U+11A8F", "U+11A90", "U+11A91",
      "U+11A92", "U+11A93", "U+11A94", "U+11A95", "U+11A96", "U+11A98", "U+11A99", "U+11C30",
      "U+11C31", "U+11C32", "U+11C33", "U+11C34", "U+11C35", "U+11C36", "U+11C38", "U+11C39",
      "U+11C3A", "U+11C3B", "U+11C3C", "U+11C3D", "U+11C3F", "U+11C92", "U+11C93", "U+11C94",
      "U+11C95", "U+11C96", "U+11C97", "U+11C98", "U+11C99", "U+11C9A", "U+11C9B", "U+11C9C",
      "U+11C9D", "U+11C9E", "U+11C9F", "U+11CA0", "U+11CA1", "U+11CA2", "U+11CA3", "U+11CA4",
      "U+11CA5", "U+11CA6", "U+11CA7", "U+11CAA", "U+11CAB", "U+11CAC", "U+11CAD", "U+11CAE",
      "U+11CAF", "U+11CB0", "U+11CB2", "U+11CB3", "U+11CB5", "U+11CB6", "U+11D31", "U+11D32",
      "U+11D33", "U+11D34", "U+11D35", "U+11D36", "U+11D3A", "U+11D3C", "U+11D3D", "U+11D3F",
      "U+11D40", "U+11D41", "U+11D42", "U+11D43", "U+11D44", "U+11D45", "U+11D47", "U+11D90",
      "U+11D91", "U+11D95", "U+11D97", "U+11EF3", "U+11EF4", "U+13430", "U+13431", "U+13432",
      "U+13433", "U+13434", "U+13435", "U+13436", "U+13437", "U+13438", "U+16AF0", "U+16AF1",
      "U+16AF2", "U+16AF3", "U+16AF4", "U+16B30", "U+16B31", "U+16B32", "U+16B33", "U+16B34",
      "U+16B35", "U+16B36", "U+16B40", "U+16B41", "U+16B42", "U+16B43", "U+16F4F", "U+16F8F",
      "U+16F90", "U+16F91", "U+16F92", "U+16F93", "U+16F94", "U+16F95", "U+16F96", "U+16F97",
      "U+16F98", "U+16F99", "U+16F9A", "U+16F9B", "U+16F9C", "U+16F9D", "U+16F9E", "U+16F9F",
      "U+16FE0", "U+16FE1", "U+16FE3", "U+16FE4", "U+1AFF0", "U+1AFF1", "U+1AFF2", "U+1AFF3",
      "U+1AFF5", "U+1AFF6", "U+1AFF7", "U+1AFF8", "U+1AFF9", "U+1AFFA", "U+1AFFB", "U+1AFFD",
      "U+1AFFE", "U+1BC9D", "U+1BC9E", "U+1BCA0", "U+1BCA1", "U+1BCA2", "U+1BCA3", "U+1CF00",
      "U+1CF01", "U+1CF02", "U+1CF03", "U+1CF04", "U+1CF05", "U+1CF06", "U+1CF07", "U+1CF08",
      "U+1CF09", "U+1CF0A", "U+1CF0B", "U+1CF0C", "U+1CF0D", "U+1CF0E", "U+1CF0F", "U+1CF10",
      "U+1CF11", "U+1CF12", "U+1CF13", "U+1CF14", "U+1CF15", "U+1CF16", "U+1CF17", "U+1CF18",
      "U+1CF19", "U+1CF1A", "U+1CF1B", "U+1CF1C", "U+1CF1D", "U+1CF1E", "U+1CF1F", "U+1CF20",
      "U+1CF21", "U+1CF22", "U+1CF23", "U+1CF24", "U+1CF25", "U+1CF26", "U+1CF27", "U+1CF28",
      "U+1CF29", "U+1CF2A", "U+1CF2B", "U+1CF2C", "U+1CF2D", "U+1CF30", "U+1CF31", "U+1CF32",
      "U+1CF33", "U+1CF34", "U+1CF35", "U+1CF36", "U+1CF37", "U+1CF38", "U+1CF39", "U+1CF3A",
      "U+1CF3B", "U+1CF3C", "U+1CF3D", "U+1CF3E", "U+1CF3F", "U+1CF40", "U+1CF41", "U+1CF42",
      "U+1CF43", "U+1CF44", "U+1CF45", "U+1CF46", "U+1D167", "U+1D168", "U+1D169", "U+1D173",
      "U+1D174", "U+1D175", "U+1D176", "U+1D177", "U+1D178", "U+1D179", "U+1D17A", "U+1D17B",
      "U+1D17C", "U+1D17D", "U+1D17E", "U+1D17F", "U+1D180", "U+1D181", "U+1D182", "U+1D185",
      "U+1D186", "U+1D187", "U+1D188", "U+1D189", "U+1D18A", "U+1D18B", "U+1D1AA", "U+1D1AB",
      "U+1D1AC", "U+1D1AD", "U+1D242", "U+1D243", "U+1D244", "U+1DA00", "U+1DA01", "U+1DA02",
      "U+1DA03", "U+1DA04", "U+1DA05", "U+1DA06", "U+1DA07", "U+1DA08", "U+1DA09", "U+1DA0A",
      "U+1DA0B", "U+1DA0C", "U+1DA0D", "U+1DA0E", "U+1DA0F", "U+1DA10", "U+1DA11", "U+1DA12",
      "U+1DA13", "U+1DA14", "U+1DA15", "U+1DA16", "U+1DA17", "U+1DA18", "U+1DA19", "U+1DA1A",
      "U+1DA1B", "U+1DA1C", "U+1DA1D", "U+1DA1E", "U+1DA1F", "U+1DA20", "U+1DA21", "U+1DA22",
      "U+1DA23", "U+1DA24", "U+1DA25", "U+1DA26", "U+1DA27", "U+1DA28", "U+1DA29", "U+1DA2A",
      "U+1DA2B", "U+1DA2C", "U+1DA2D", "U+1DA2E", "U+1DA2F", "U+1DA30", "U+1DA31", "U+1DA32",
      "U+1DA33", "U+1DA34", "U+1DA35", "U+1DA36", "U+1DA3B", "U+1DA3C", "U+1DA3D", "U+1DA3E",
      "U+1DA3F", "U+1DA40", "U+1DA41", "U+1DA42", "U+1DA43", "U+1DA44", "U+1DA45", "U+1DA46",
      "U+1DA47", "U+1DA48", "U+1DA49", "U+1DA4A", "U+1DA4B", "U+1DA4C", "U+1DA4D", "U+1DA4E",
      "U+1DA4F", "U+1DA50", "U+1DA51", "U+1DA52", "U+1DA53", "U+1DA54", "U+1DA55", "U+1DA56",
      "U+1DA57", "U+1DA58", "U+1DA59", "U+1DA5A", "U+1DA5B", "U+1DA5C", "U+1DA5D", "U+1DA5E",
      "U+1DA5F", "U+1DA60", "U+1DA61", "U+1DA62", "U+1DA63", "U+1DA64", "U+1DA65", "U+1DA66",
      "U+1DA67", "U+1DA68", "U+1DA69", "U+1DA6A", "U+1DA6B", "U+1DA6C", "U+1DA75", "U+1DA84",
      "U+1DA9B", "U+1DA9C", "U+1DA9D", "U+1DA9E", "U+1DA9F", "U+1DAA1", "U+1DAA2", "U+1DAA3",
      "U+1DAA4", "U+1DAA5", "U+1DAA6", "U+1DAA7", "U+1DAA8", "U+1DAA9", "U+1DAAA", "U+1DAAB",
      "U+1DAAC", "U+1DAAD", "U+1DAAE", "U+1DAAF", "U+1E000", "U+1E001", "U+1E002", "U+1E003",
      "U+1E004", "U+1E005", "U+1E006", "U+1E008", "U+1E009", "U+1E00A", "U+1E00B", "U+1E00C",
      "U+1E00D", "U+1E00E", "U+1E00F", "U+1E010", "U+1E011", "U+1E012", "U+1E013", "U+1E014",
      "U+1E015", "U+1E016", "U+1E017", "U+1E018", "U+1E01B", "U+1E01C", "U+1E01D", "U+1E01E",
      "U+1E01F", "U+1E020", "U+1E021", "U+1E023", "U+1E024", "U+1E026", "U+1E027", "U+1E028",
      "U+1E029", "U+1E02A", "U+1E130", "U+1E131", "U+1E132", "U+1E133", "U+1E134", "U+1E135",
      "U+1E136", "U+1E137", "U+1E138", "U+1E139", "U+1E13A", "U+1E13B", "U+1E13C", "U+1E13D",
      "U+1E2AE", "U+1E2EC", "U+1E2ED", "U+1E2EE", "U+1E2EF", "U+1E8D0", "U+1E8D1", "U+1E8D2",
      "U+1E8D3", "U+1E8D4", "U+1E8D5", "U+1E8D6", "U+1E944", "U+1E945", "U+1E946", "U+1E947",
      "U+1E948", "U+1E949", "U+1E94A", "U+1E94B", "U+1F3FB", "U+1F3FC", "U+1F3FD", "U+1F3FE",
      "U+1F3FF", "U+E0001", "U+E0020", "U+E0021", "U+E0022", "U+E0023", "U+E0024", "U+E0025",
      "U+E0026", "U+E0027", "U+E0028", "U+E0029", "U+E002A", "U+E002B", "U+E002C", "U+E002D",
      "U+E002E", "U+E002F", "U+E0030", "U+E0031", "U+E0032", "U+E0033", "U+E0034", "U+E0035",
      "U+E0036", "U+E0037", "U+E0038", "U+E0039", "U+E003A", "U+E003B", "U+E003C", "U+E003D",
      "U+E003E", "U+E003F", "U+E0040", "U+E0041", "U+E0042", "U+E0043", "U+E0044", "U+E0045",
      "U+E0046", "U+E0047", "U+E0048", "U+E0049", "U+E004A", "U+E004B", "U+E004C", "U+E004D",
      "U+E004E", "U+E004F", "U+E0050", "U+E0051", "U+E0052", "U+E0053", "U+E0054", "U+E0055",
      "U+E0056", "U+E0057", "U+E0058", "U+E0059", "U+E005A", "U+E005B", "U+E005C", "U+E005D",
      "U+E005E", "U+E005F", "U+E0060", "U+E0061", "U+E0062", "U+E0063", "U+E0064", "U+E0065",
      "U+E0066", "U+E0067", "U+E0068", "U+E0069", "U+E006A", "U+E006B", "U+E006C", "U+E006D",
      "U+E006E", "U+E006F", "U+E0070", "U+E0071", "U+E0072", "U+E0073", "U+E0074", "U+E0075",
      "U+E0076", "U+E0077", "U+E0078", "U+E0079", "U+E007A", "U+E007B", "U+E007C", "U+E007D",
      "U+E007E", "U+E007F", "U+E0100", "U+E0101", "U+E0102", "U+E0103", "U+E0104", "U+E0105",
      "U+E0106", "U+E0107", "U+E0108", "U+E0109", "U+E010A", "U+E010B", "U+E010C", "U+E010D",
      "U+E010E", "U+E010F", "U+E0110", "U+E0111", "U+E0112", "U+E0113", "U+E0114", "U+E0115",
      "U+E0116", "U+E0117", "U+E0118", "U+E0119", "U+E011A", "U+E011B", "U+E011C", "U+E011D",
      "U+E011E", "U+E011F", "U+E0120", "U+E0121", "U+E0122", "U+E0123", "U+E0124", "U+E0125",
      "U+E0126", "U+E0127", "U+E0128", "U+E0129", "U+E012A", "U+E012B", "U+E012C", "U+E012D",
      "U+E012E", "U+E012F", "U+E0130", "U+E0131", "U+E0132", "U+E0133", "U+E0134", "U+E0135",
      "U+E0136", "U+E0137", "U+E0138", "U+E0139", "U+E013A", "U+E013B", "U+E013C", "U+E013D",
      "U+E013E", "U+E013F", "U+E0140", "U+E0141", "U+E0142", "U+E0143", "U+E0144", "U+E0145",
      "U+E0146", "U+E0147", "U+E0148", "U+E0149", "U+E014A", "U+E014B", "U+E014C", "U+E014D",
      "U+E014E", "U+E014F", "U+E0150", "U+E0151", "U+E0152", "U+E0153", "U+E0154", "U+E0155",
      "U+E0156", "U+E0157", "U+E0158", "U+E0159", "U+E015A", "U+E015B", "U+E015C", "U+E015D",
      "U+E015E", "U+E015F", "U+E0160", "U+E0161", "U+E0162", "U+E0163", "U+E0164", "U+E0165",
      "U+E0166", "U+E0167", "U+E0168", "U+E0169", "U+E016A", "U+E016B", "U+E016C", "U+E016D",
      "U+E016E", "U+E016F", "U+E0170", "U+E0171", "U+E0172", "U+E0173", "U+E0174", "U+E0175",
      "U+E0176", "U+E0177", "U+E0178", "U+E0179", "U+E017A", "U+E017B", "U+E017C", "U+E017D",
      "U+E017E", "U+E017F", "U+E0180", "U+E0181", "U+E0182", "U+E0183", "U+E0184", "U+E0185",
      "U+E0186", "U+E0187", "U+E0188", "U+E0189", "U+E018A", "U+E018B", "U+E018C", "U+E018D",
      "U+E018E", "U+E018F", "U+E0190", "U+E0191", "U+E0192", "U+E0193", "U+E0194", "U+E0195",
      "U+E0196", "U+E0197", "U+E0198", "U+E0199", "U+E019A", "U+E019B", "U+E019C", "U+E019D",
      "U+E019E", "U+E019F", "U+E01A0", "U+E01A1", "U+E01A2", "U+E01A3", "U+E01A4", "U+E01A5",
      "U+E01A6", "U+E01A7", "U+E01A8", "U+E01A9", "U+E01AA", "U+E01AB", "U+E01AC", "U+E01AD",
      "U+E01AE", "U+E01AF", "U+E01B0", "U+E01B1", "U+E01B2", "U+E01B3", "U+E01B4", "U+E01B5",
      "U+E01B6", "U+E01B7", "U+E01B8", "U+E01B9", "U+E01BA", "U+E01BB", "U+E01BC", "U+E01BD",
      "U+E01BE", "U+E01BF", "U+E01C0", "U+E01C1", "U+E01C2", "U+E01C3", "U+E01C4", "U+E01C5",
      "U+E01C6", "U+E01C7", "U+E01C8", "U+E01C9", "U+E01CA", "U+E01CB", "U+E01CC", "U+E01CD",
      "U+E01CE", "U+E01CF", "U+E01D0", "U+E01D1", "U+E01D2", "U+E01D3", "U+E01D4", "U+E01D5",
      "U+E01D6", "U+E01D7", "U+E01D8", "U+E01D9", "U+E01DA", "U+E01DB", "U+E01DC", "U+E01DD",
      "U+E01DE", "U+E01DF", "U+E01E0", "U+E01E1", "U+E01E2", "U+E01E3", "U+E01E4", "U+E01E5",
      "U+E01E6", "U+E01E7", "U+E01E8", "U+E01E9", "U+E01EA", "U+E01EB", "U+E01EC", "U+E01ED",
      "U+E01EE", "U+E01EF" }

MappedChars == {e.c : e \in CaseTable}
InCaseTable(c) == c \in MappedChars
CaseEntry(c) == CHOOSE e \in CaseTable : e.c = c

IsAsciiUpper(c) == \E i \in 1..Len(UpperCase) : UpperCase[i] = c
IsAsciiLower(c) == \E i \in 1..Len(LowerCase) : LowerCase[i] = c

\* c.lower() for a one-character string c: the characters it gives.
LowerChar(c) ==
    IF IsAsciiUpper(c)
    THEN <<LowerCase[CHOOSE i \in 1..Len(UpperCase) : UpperCase[i] = c]>>
    ELSE IF IsAsciiLower(c) THEN <<c>>
    ELSE IF InCaseTable(c) THEN CaseEntry(c).lower ELSE <<c>>

IsCased(c) == IsAsciiUpper(c) \/ IsAsciiLower(c) \/ c \in CasedChars
IsCaseIgnorable(c) == c \in CaseIgnorableChars

\* The capital sigma at s[i] ends a word: going back over the ignorable
\* characters there is a cased letter, going forward there is none.
FinalSigma(s, i) ==
    /\ \E j \in 1..(i - 1) :
          /\ ~IsCaseIgnorable(s[j])
          /\ IsCased(s[j])
          /\ \A k \in (j + 1)..(i - 1) : IsCaseIgnorable(s[k])
    /\ \A j \in (i + 1)..Len(s) :
          (/\ ~IsCaseIgnorable(s[j])
           /\ \A k \in (i + 1)..(j - 1) : IsCaseIgnorable(s[k]))
              => ~IsCased(s[j])

\* The lower case of the character at s[i] inside s.
LowerAt(s, i) ==
    IF s[i] = "U+03A3"
    THEN (IF FinalSigma(s, i) THEN <<"U+03C2">> ELSE <<"U+03C3">>)
    ELSE LowerChar(s[i])

RECURSIVE lower_from(_, _)
lower_from(s, i) ==
    IF i > Len(s) THEN <<>> ELSE LowerAt(s, i) \o lower_from(s, i + 1)

\* str.lower()
lower(s) == lower_from(s, 1)

\* Python's  sub in s
Contains(s, sub) ==
    \E i \in 0..Len(s) :
        /\ i + Len(sub) <= Len(s)
        /\ \A j \in 1..Len(sub) : s[i + j] = sub[j]

auth_keywords ==
    << <<"a","u","t","h","e","n","t","i","c","a","t","i","o","n">>,
       <<"a","u","t","h","o","r","i","z","e">>,
       <<"a","u","t","h","o","r","i","z","a","t","i","o","n">>,
       <<"a","u","t","h">>,
       <<"s","i","g","n"," ","i","n">>,
       <<"l","o","g","i","n">>,
       <<"a","c","c","e","s","s">>,
       <<"p","e","r","m","i","s","s","i","o","n">>,
       <<"c","r","e","d","e","n","t","i","a","l">>,
       <<"n","e","e","d"," ","a","u","t","h","e","n","t","i","c","a","t","i","o","n">>,
       <<"r","e","q","u","i","r","e","s"," ","a","u","t","h","e","n","t","i","c","a","t","i","o","n">> >>

RECURSIVE JoinTexts(_)
JoinTexts(content) ==
    IF content = <<>> THEN <<>>
    ELSE (IF Head(content).has_text THEN Head(content).text ELSE <<>>)
         \o JoinTexts(Tail(content))

\* The text of a response: the 'text' blocks of a dict message joined, and
\* str(message) for a message that is not a dict.  For a dict whose
\* 'content' is not a list the GitHub script falls through to
\* str(message), the Google script leaves the text empty.
extract_response_text(s, message) ==
    IF message.tag = "dict" THEN JoinTexts(message.content)
    ELSE IF message.tag = "dict_other"
         THEN (IF s = "github" THEN message.repr ELSE <<>>)
         ELSE message.repr

needs_authentication(response_text) ==
    \E k \in 1..Len(auth_keywords) :
        Contains(lower(response_text), lower(auth_keywords[k]))

\* ----------------------------------------------------------------- state
VARIABLES
    script,         \* which of the two sample scripts this process runs
    access_token,   \* google_access_token / github_access_token
    finished,       \* queue.finished / queue._finished
    queue,          \* queue.queue / queue._queue: the items not yet removed
    running,        \* the request whose task owns the event loop, 0 if none
    tpc,            \* per request: where its agent_task stands
    cpc,            \* per request: where its stream_with_task stands
    response,       \* per request: agent_task's local  response
    error,          \* per request: the message of the exception being handled
    url_sent,       \* per request: on_auth_url has been called back
    plan,           \* per request: the items a plain producer still has to put
    puts,           \* history: the values each request's task has put, in order
    got,            \* history: how many items each request's stream has yielded
    in_order,       \* history: each item yielded so far was the next one its
                    \*          own request's task had put
    own,            \* history: each item yielded so far was put by its own request
    stopped_by,     \* history: whose sentinel ended each request's stream
    first_plan,     \* history: the items a plain producer was given
    agent_calls,    \* history: agent(...) calls per request
    oauth_calls,    \* history: need_token_3lo_async calls per request
    finish_calls,   \* history: queue.finish() calls per request
    late_put,       \* history: a request put an item after its finish()
    acquired,       \* history: the token each request's exchange returned
    raised_at,      \* history: where an exception was raised in each task
    last_exchange,  \* history: the token of the latest successful exchange
    tool_log,       \* the provider tool's invocation by the agent call just made
    early_break,    \* history: a request's stream ended on an item that is
                    \*          no sentinel, before that request's finish()
    probe           \* a response text put to the keyword test, and the answers

vars == <<script, access_token, finished, queue, running, tpc, cpc, response,
          error, url_sent, plan, puts, got, in_order, own, stopped_by, first_plan,
          agent_calls, oauth_calls, finish_calls, late_put, acquired,
          raised_at, last_exchange, tool_log, early_break, probe>>

NoTool == [called |-> FALSE, by |-> 0, retry |-> FALSE, token |-> NoToken,
           auth_required |-> FALSE, api_call |-> FALSE]

\* StreamingQueue.__init__ and the module-level globals; no request yet.
InitProgram(scripts) ==
    /\ script \in scripts
    /\ access_token = NoToken
    /\ finished = FALSE
    /\ queue = <<>>
    /\ running = 0
    /\ tpc = [r \in Requests |-> "none"]
    /\ cpc = [r \in Requests |-> "none"]
    /\ response = [r \in Requests |-> None]
    /\ error = [r \in Requests |-> ""]
    /\ url_sent = [r \in Requests |-> FALSE]
    /\ plan = [r \in Requests |-> <<>>]
    /\ puts = [r \in Requests |-> <<>>]
    /\ got = [r \in Requests |-> 0]
    /\ in_order = [r \in Requests |-> TRUE]
    /\ own = [r \in Requests |-> TRUE]
    /\ stopped_by = [r \in Requests |-> 0]
    /\ first_plan = [r \in Requests |-> <<>>]
    /\ agent_calls = [r \in Requests |-> 0]
    /\ oauth_calls = [r \in Requests |-> 0]
    /\ finish_calls = [r \in Requests |-> 0]
    /\ late_put = [r \in Requests |-> FALSE]
    /\ acquired = [r \in Requests |-> NoToken]
    /\ raised_at = [r \in Requests |-> "nowhere"]
    /\ last_exchange = NoToken
    /\ tool_log = NoTool
    /\ early_break = [r \in Requests |-> FALSE]

\* No response text is being tested.
NoProbe ==
    [message |-> None, text |-> <<>>, variant |-> <<>>, step |-> "none",
     result |-> FALSE, variant_result |-> FALSE]
InitWith(scripts) == InitProgram(scripts) /\ probe = NoProbe

Init == InitWith(Scripts)

\* ------------------------------------------------------- StreamingQueue
\* A put that adds at the head instead of the tail (a LIFO queue).
put_at_head(q, item) == <<item>> \o q

\* asyncio.Queue.put on the unbounded queue: append at the tail.
put(q, item) == Append(q, item)

\* A break test that looks at the completion flag alone.
stream_breaks_on_flag(item, fin) == fin

\* stream(): the test that ends the loop.
stream_breaks(item, fin) == item.v = None /\ fin

\* What one put by request r does to the queue and to the histories.
Enqueue(r, v, is_sentinel) ==
    /\ queue' = put(queue, [v |-> v, by |-> r, sentinel |-> is_sentinel])
    /\ puts' = IF is_sentinel THEN puts ELSE [puts EXCEPT ![r] = Append(@, v)]
    /\ late_put' = [late_put EXCEPT
                      ![r] = @ \/ (~is_sentinel /\ finish_calls[r] > 0)]

\* A finish that sets the flag and forgets the sentinel.
finish_without_sentinel(r) ==
    /\ finished' = TRUE
    /\ finish_calls' = [finish_calls EXCEPT ![r] = @ + 1]
    /\ UNCHANGED <<queue, puts, late_put>>

\* finish(): set the flag, then put the None sentinel.
finish(r) ==
    /\ finished' = TRUE
    /\ Enqueue(r, None, TRUE)
    /\ finish_calls' = [finish_calls EXCEPT ![r] = @ + 1]

\* Whether the item handed to request r's consumer is the next one of the
\* values r's own task has put.
NextOfOwn(r, item) ==
    /\ got[r] < Len(puts[r])
    /\ item.v = puts[r][got[r] + 1]

\* One turn of stream()'s loop for request r's consumer: remove the head
\* (queue.get() suspends while the queue is empty), then break or yield.
stream(r) ==
    /\ cpc[r] = "get"
    /\ running = 0
    /\ queue # <<>>
    /\ queue' = Tail(queue)
    /\ IF stream_breaks(Head(queue), finished)
       THEN /\ cpc' = [cpc EXCEPT ![r] = "await_task"]
            /\ stopped_by' = [stopped_by EXCEPT ![r] = Head(queue).by]
            /\ early_break' = [early_break EXCEPT
                                 ![r] = @ \/ (~Head(queue).sentinel
                                              /\ finish_calls[r] = 0)]
            /\ UNCHANGED <<got, in_order, own>>
       ELSE /\ got' = [got EXCEPT ![r] = @ + 1]
            /\ in_order' = [in_order EXCEPT
                              ![r] = @ /\ ~Head(queue).sentinel
                                       /\ NextOfOwn(r, Head(queue))]
            /\ own' = [own EXCEPT ![r] = @ /\ Head(queue).by = r]
            /\ UNCHANGED <<cpc, stopped_by, early_break>>
    /\ UNCHANGED <<probe, script, access_token, finished, running, tpc, response,
                   error, url_sent, plan, puts, first_plan, agent_calls,
                   oauth_calls, finish_calls, late_put, acquired, raised_at,
                   last_exchange, tool_log>>

\* stream_with_task() returning after the loop without awaiting the task.
await_task_no_wait(r) ==
    /\ cpc[r] = "await_task"
    /\ running = 0
    /\ cpc' = [cpc EXCEPT ![r] = "done"]
    /\ UNCHANGED <<probe, early_break, script, access_token, finished, queue, running, tpc,
                   response, error, url_sent, plan, puts, got, in_order, own, stopped_by,
                   first_plan, agent_calls, oauth_calls, finish_calls,
                   late_put, acquired, raised_at, last_exchange, tool_log>>

\* stream_with_task(): after the loop,  await task.
await_task(r) ==
    /\ cpc[r] = "await_task"
    /\ running = 0
    /\ tpc[r] = "done"
    /\ cpc' = [cpc EXCEPT ![r] = "done"]
    /\ UNCHANGED <<probe, early_break, script, access_token, finished, queue, running, tpc,
                   response, error, url_sent, plan, puts, got, in_order, own, stopped_by,
                   first_plan, agent_calls, oauth_calls, finish_calls,
                   late_put, acquired, raised_at, last_exchange, tool_log>>

\* Requests are numbered in their order of arrival.
NextToArrive(r) ==
    /\ tpc[r] = "none"
    /\ \A s \in Requests : s < r => tpc[s] # "none"

\* agent_invocation(payload): create the task, hand back the stream.
agent_invocation(r) ==
    /\ NextToArrive(r)
    /\ running = 0
    /\ tpc' = [tpc EXCEPT ![r] = "start"]
    /\ cpc' = [cpc EXCEPT ![r] = "get"]
    /\ UNCHANGED <<probe, early_break, script, access_token, finished, queue, running, response,
                   error, url_sent, plan, puts, got, in_order, own, stopped_by, first_plan,
                   agent_calls, oauth_calls, finish_calls, late_put, acquired,
                   raised_at, last_exchange, tool_log>>

\* ------------------------------------------------------ the provider tool
\* Python truthiness of the token slot:  not token  holds for None and ''.
Truthy(tok) == tok # NoToken /\ tok # ""

\* A tool that goes to the provider's API without looking at the token.
provider_tool_unguarded(tok) == [auth_required |-> FALSE, api_call |-> TRUE]

\* get_calendar_events_today() / inspect_github_repos(): without a token the
\* tool returns the "auth_required" marker; with one it calls the provider's
\* API (whose answer, success or error text, is returned to the agent).
provider_tool(tok) ==
    IF ~Truthy(tok)
    THEN [auth_required |-> TRUE, api_call |-> FALSE]
    ELSE [auth_required |-> FALSE, api_call |-> TRUE]

\* The agent's tool invocation as it is logged.
ToolCall(r, is_retry) ==
    [called |-> TRUE, by |-> r, retry |-> is_retry, token |-> access_token,
     auth_required |-> provider_tool(access_token).auth_required,
     api_call |-> provider_tool(access_token).api_call]

\* ------------------------------------------------------------ agent_task
\* The statements a task runs without suspending belong to one turn of the
\* event loop: a step is taken by the task that owns the loop.
Owns(r) == running = r

\* await queue.put("Begin agent execution"): the task's first turn.
task_begin(r) ==
    /\ tpc[r] = "start"
    /\ running = 0
    /\ running' = r
    /\ Enqueue(r, Str("Begin agent execution"), FALSE)
    /\ tpc' = [tpc EXCEPT ![r] = "call_agent"]
    /\ UNCHANGED <<probe, early_break, script, access_token, finished, cpc, response, error,
                   url_sent, plan, got, in_order, own, stopped_by, first_plan, agent_calls,
                   oauth_calls, finish_calls, acquired, raised_at,
                   last_exchange>>
    /\ tool_log' = NoTool

\* agent(user_message): a synchronous call.  The agent may invoke the tool,
\* and either returns a response or raises.
agent(r, from_pc, is_retry, ok_pc, err_pc) ==
    /\ tpc[r] = from_pc
    /\ Owns(r)
    /\ agent_calls' = [agent_calls EXCEPT ![r] = @ + 1]
    /\ \E use_tool \in BOOLEAN :
           tool_log' = IF use_tool THEN ToolCall(r, is_retry) ELSE tool_log
    /\ \/ \E m \in Messages :
             /\ response' = [response EXCEPT ![r] = m]
             /\ tpc' = [tpc EXCEPT ![r] = ok_pc]
             /\ UNCHANGED <<error, raised_at>>
       \/ \E e \in AgentErrors :
             /\ error' = [error EXCEPT ![r] = e]
             /\ raised_at' = [raised_at EXCEPT ![r] = from_pc]
             /\ tpc' = [tpc EXCEPT ![r] = err_pc]
             /\ UNCHANGED response
    /\ UNCHANGED <<probe, early_break, script, access_token, finished, queue, running, cpc,
                   url_sent, plan, puts, got, in_order, own, stopped_by, first_plan,
                   oauth_calls, finish_calls, late_put, acquired,
                   last_exchange>>

\* response = agent(user_message): the initial call; an exception goes to the
\* outer handler.
call_agent(r) == agent(r, "call_agent", FALSE, "check_auth", "except")

\* The text extraction and the keyword test, and with needs_auth the put of
\* the authentication-required status.
check_auth(r) ==
    /\ tpc[r] = "check_auth"
    /\ Owns(r)
    /\ IF needs_authentication(extract_response_text(script, response[r]))
       THEN /\ Enqueue(r, Fmt("Authentication required for ", script), FALSE)
            /\ tpc' = [tpc EXCEPT ![r] = "oauth"]
       ELSE /\ tpc' = [tpc EXCEPT ![r] = "put_result"]
            /\ UNCHANGED <<queue, puts, late_put>>
    /\ UNCHANGED <<probe, early_break, script, access_token, finished, running, cpc, response,
                   error, url_sent, plan, got, in_order, own, stopped_by, first_plan,
                   agent_calls, oauth_calls, finish_calls, acquired,
                   raised_at, last_exchange>>
    /\ tool_log' = NoTool

\* await need_token_3lo_async(access_token=''): the helper is entered and
\* the task suspends on its network exchange.
oauth_start(r) ==
    /\ tpc[r] = "oauth"
    /\ Owns(r)
    /\ oauth_calls' = [oauth_calls EXCEPT ![r] = @ + 1]
    /\ tpc' = [tpc EXCEPT ![r] = "oauth_wait"]
    /\ running' = 0
    /\ UNCHANGED <<probe, early_break, script, access_token, finished, queue, cpc, response,
                   error, url_sent, plan, puts, got, in_order, own, stopped_by, first_plan,
                   agent_calls, finish_calls, late_put, acquired, raised_at,
                   last_exchange>>
    /\ tool_log' = NoTool

\* The status text on_auth_url puts in front of the URL.
auth_url_text(s) ==
    IF s = "github" THEN "Authorization URL: " ELSE "Authorization url: "

\* on_auth_url(url): the helper calls back with the authorization URL when
\* the user has to consent (it need not when it may answer from a cached
\* token), then goes on waiting for the token.
on_auth_url(r) ==
    /\ tpc[r] = "oauth_wait"
    /\ running = 0
    /\ ~url_sent[r]
    /\ url_sent' = [url_sent EXCEPT ![r] = TRUE]
    /\ Enqueue(r, Fmt(auth_url_text(script), "url"), FALSE)
    /\ UNCHANGED <<probe, early_break, script, access_token, finished, running, tpc, cpc,
                   response, error, plan, got, in_order, own, stopped_by, first_plan,
                   agent_calls, oauth_calls, finish_calls, acquired,
                   raised_at, last_exchange>>
    /\ tool_log' = NoTool

\* A slot that keeps the first token it was given.
store_first_token(tok) == IF access_token = NoToken THEN tok ELSE access_token

\* An exchange that leaves the slot as it finds it.
keep_slot(tok) == access_token

\* What the decorated need_token_3lo_async leaves in the slot when the
\* exchange returns tok: its body stores the token, and agent_task stores
\* the returned value again.
store_token(tok) == tok

\* The exchange succeeds: need_token_3lo_async runs with the token and
\* returns it to agent_task, which goes on without suspending.  Whether the
\* helper has called on_auth_url before is the helper's affair.
oauth_return(r) ==
    /\ tpc[r] = "oauth_wait"
    /\ running = 0
    /\ \E tok \in Tokens :
          /\ access_token' = store_token(tok)
          /\ acquired' = [acquired EXCEPT ![r] = tok]
          /\ last_exchange' = tok
    /\ running' = r
    /\ tpc' = [tpc EXCEPT ![r] = "auth_ok"]
    /\ UNCHANGED <<probe, early_break, script, finished, queue, cpc, response, error, url_sent,
                   plan, puts, got, in_order, own, stopped_by, first_plan, agent_calls,
                   oauth_calls, finish_calls, late_put, raised_at>>
    /\ tool_log' = NoTool

\* The exchange raises: control goes to  except Exception as auth_error.
oauth_raise(r) ==
    /\ tpc[r] = "oauth_wait"
    /\ running = 0
    /\ \E e \in AuthErrors : error' = [error EXCEPT ![r] = e]
    /\ raised_at' = [raised_at EXCEPT ![r] = "oauth"]
    /\ running' = r
    /\ tpc' = [tpc EXCEPT ![r] = "auth_except"]
    /\ UNCHANGED <<probe, early_break, script, access_token, finished, queue, cpc, response,
                   url_sent, plan, puts, got, in_order, own, stopped_by, first_plan,
                   agent_calls, oauth_calls, finish_calls, late_put,
                   acquired, last_exchange>>
    /\ tool_log' = NoTool

\* await queue.put("Authentication successful! Retrying ... request...")
auth_ok(r) ==
    /\ tpc[r] = "auth_ok"
    /\ Owns(r)
    /\ Enqueue(r, Str("Authentication successful! Retrying"), FALSE)
    /\ tpc' = [tpc EXCEPT ![r] = "retry"]
    /\ UNCHANGED <<probe, early_break, script, access_token, finished, running, cpc, response,
                   error, url_sent, plan, got, in_order, own, stopped_by, first_plan,
                   agent_calls, oauth_calls, finish_calls, acquired,
                   raised_at, last_exchange>>
    /\ tool_log' = NoTool

\* response = agent(user_message) inside the inner try: an exception of the
\* retried call goes to the inner handler.
retry_agent(r) == agent(r, "retry", TRUE, "put_result", "auth_except")

\* An inner handler whose return leaves the task without running finally.
after_auth_failure_no_finally(s) == IF s = "github" THEN "done" ELSE "put_result"

\* An inner handler that tries the agent again after a failure.
after_auth_failure_retry(s) == "retry"

\* Where the inner handler leaves the task: the GitHub script returns (the
\* finally block runs next), the Google script falls out of the if.
after_auth_failure(s) == IF s = "github" THEN "finally" ELSE "put_result"

\* except Exception as auth_error: put "Authentication failed: ...".
auth_except(r) ==
    /\ tpc[r] = "auth_except"
    /\ Owns(r)
    /\ Enqueue(r, Fmt("Authentication failed: ", error[r]), FALSE)
    /\ tpc' = [tpc EXCEPT ![r] = after_auth_failure(script)]
    /\ UNCHANGED <<probe, early_break, script, access_token, finished, running, cpc, response,
                   error, url_sent, plan, got, in_order, own, stopped_by, first_plan,
                   agent_calls, oauth_calls, finish_calls, acquired,
                   raised_at, last_exchange>>
    /\ tool_log' = NoTool

\* await queue.put(response.message)
put_result(r) ==
    /\ tpc[r] = "put_result"
    /\ Owns(r)
    /\ Enqueue(r, response[r], FALSE)
    /\ tpc' = [tpc EXCEPT ![r] = "put_end"]
    /\ UNCHANGED <<probe, early_break, script, access_token, finished, running, cpc, response,
                   error, url_sent, plan, got, in_order, own, stopped_by, first_plan,
                   agent_calls, oauth_calls, finish_calls, acquired,
                   raised_at, last_exchange>>
    /\ tool_log' = NoTool

\* await queue.put("End agent execution")
put_end(r) ==
    /\ tpc[r] = "put_end"
    /\ Owns(r)
    /\ Enqueue(r, Str("End agent execution"), FALSE)
    /\ tpc' = [tpc EXCEPT ![r] = "finally"]
    /\ UNCHANGED <<probe, early_break, script, access_token, finished, running, cpc, response,
                   error, url_sent, plan, got, in_order, own, stopped_by, first_plan,
                   agent_calls, oauth_calls, finish_calls, acquired,
                   raised_at, last_exchange>>
    /\ tool_log' = NoTool

\* except Exception as e: put "Error: ...".
outer_except(r) ==
    /\ tpc[r] = "except"
    /\ Owns(r)
    /\ Enqueue(r, Fmt("Error: ", error[r]), FALSE)
    /\ tpc' = [tpc EXCEPT ![r] = "finally"]
    /\ UNCHANGED <<probe, early_break, script, access_token, finished, running, cpc, response,
                   error, url_sent, plan, got, in_order, own, stopped_by, first_plan,
                   agent_calls, oauth_calls, finish_calls, acquired,
                   raised_at, last_exchange>>
    /\ tool_log' = NoTool

\* finally: await queue.finish(); the task ends and frees the event loop.
task_finally(r) ==
    /\ tpc[r] = "finally"
    /\ Owns(r)
    /\ finish(r)
    /\ tpc' = [tpc EXCEPT ![r] = "done"]
    /\ running' = 0
    /\ UNCHANGED <<probe, early_break, script, access_token, cpc, response, error, url_sent,
                   plan, got, in_order, own, stopped_by, first_plan, agent_calls,
                   oauth_calls, acquired, raised_at, last_exchange>>
    /\ tool_log' = NoTool

agent_task(r) ==
    \/ task_begin(r)
    \/ call_agent(r)
    \/ check_auth(r)
    \/ oauth_start(r)
    \/ on_auth_url(r)
    \/ oauth_return(r)
    \/ oauth_raise(r)
    \/ auth_ok(r)
    \/ retry_agent(r)
    \/ auth_except(r)
    \/ put_result(r)
    \/ put_end(r)
    \/ outer_except(r)
    \/ task_finally(r)

\* ------------------------------------------------------- specifications
\* Requests may arrive at any time, also while earlier ones are in progress.
Next ==
    \E r \in Requests :
        \/ agent_invocation(r)
        \/ agent_task(r)
        \/ stream(r)
        \/ await_task(r)

Spec == Init /\ [][Next]_vars

\* Requests arrive one after the other: a request is accepted once the
\* streams of the earlier ones have completed.
sequential_invocation(r) ==
    /\ \A s \in Requests : s < r => cpc[s] = "done"
    /\ agent_invocation(r)

NextSeq ==
    \E r \in Requests :
        \/ sequential_invocation(r)
        \/ agent_task(r)
        \/ stream(r)
        \/ await_task(r)

SpecSeq == Init /\ [][NextSeq]_vars

\* ------------------------------------- StreamingQueue with a plain producer
\* A producer task and a consumer are started on the queue; the producer is
\* given the items it will put.
producer_start(r) ==
    /\ script = PlainProducer
    /\ NextToArrive(r)
    /\ running = 0
    /\ \E p \in Plans :
          /\ plan' = [plan EXCEPT ![r] = p]
          /\ first_plan' = [first_plan EXCEPT ![r] = p]
    /\ tpc' = [tpc EXCEPT ![r] = "producing"]
    /\ cpc' = [cpc EXCEPT ![r] = "get"]
    /\ UNCHANGED <<probe, early_break, script, access_token, finished, queue, running, response,
                   error, url_sent, puts, got, in_order, own, stopped_by,
                   agent_calls, oauth_calls, finish_calls, late_put, acquired,
                   raised_at, last_exchange, tool_log>>

\* await queue.put(item) for the next item; the producer may suspend between
\* two puts.
producer_put(r) ==
    /\ tpc[r] = "producing"
    /\ running = 0
    /\ plan[r] # <<>>
    /\ Enqueue(r, Head(plan[r]), FALSE)
    /\ plan' = [plan EXCEPT ![r] = Tail(@)]
    /\ UNCHANGED <<probe, early_break, script, access_token, finished, running, tpc, cpc,
                   response, error, url_sent, got, in_order, own, stopped_by,
                   first_plan, agent_calls, oauth_calls, finish_calls,
                   acquired, raised_at, last_exchange, tool_log>>

\* await queue.finish() after the last put.
producer_finish(r) ==
    /\ tpc[r] = "producing"
    /\ running = 0
    /\ plan[r] = <<>>
    /\ finish(r)
    /\ tpc' = [tpc EXCEPT ![r] = "done"]
    /\ UNCHANGED <<probe, early_break, script, access_token, running, cpc, response, error,
                   url_sent, plan, got, in_order, own, stopped_by, first_plan,
                   agent_calls, oauth_calls, acquired, raised_at,
                   last_exchange, tool_log>>

InitQueue == InitWith({PlainProducer})

\* One request: one producer task, one consumer.
NextQueue ==
    \/ producer_start(1)
    \/ producer_put(1)
    \/ producer_finish(1)
    \/ stream(1)
    \/ await_task(1)

SpecQueue == InitQueue /\ [][NextQueue]_vars

\* The same queue object serving one producer and consumer after another,
\* as the module-level queue serves one request after another.
producer_start_after_previous(r) ==
    /\ \A s \in Requests : s < r => cpc[s] = "done"
    /\ producer_start(r)

NextQueueSeq ==
    \E r \in Requests :
        \/ producer_start_after_previous(r)
        \/ producer_put(r)
        \/ producer_finish(r)
        \/ stream(r)
        \/ await_task(r)

SpecQueueSeq == InitQueue /\ [][NextQueueSeq]_vars

\* ------------------------------------------------- the keyword test alone
\* c.upper() and c.title() for a one-character string c.
UpperChar(c) ==
    IF IsAsciiLower(c)
    THEN <<UpperCase[CHOOSE i \in 1..Len(LowerCase) : LowerCase[i] = c]>>
    ELSE IF IsAsciiUpper(c) THEN <<c>>
    ELSE IF InCaseTable(c) THEN CaseEntry(c).upper ELSE <<c>>
TitleChar(c) ==
    IF InCaseTable(c) THEN CaseEntry(c).title ELSE UpperChar(c)

\* c.isupper() and c.islower() for a one-character string c.
IsUpper(c) == IsAsciiUpper(c) \/ c \in UppercaseChars
IsLower(c) == IsAsciiLower(c) \/ c \in LowercaseChars

\* str.upper()
RECURSIVE upper(_)
upper(s) == IF s = <<>> THEN <<>> ELSE UpperChar(Head(s)) \o upper(Tail(s))

\* str.capitalize(): the first character in title case, the rest in lower
\* case.
capitalize(s) ==
    IF s = <<>> THEN <<>> ELSE TitleChar(s[1]) \o lower_from(s, 2)

\* str.swapcase(): upper-case characters to lower case, lower-case
\* characters to upper case, the others as they are.
RECURSIVE swapcase_from(_, _)
swapcase_from(s, i) ==
    IF i > Len(s) THEN <<>>
    ELSE (IF IsUpper(s[i]) THEN LowerAt(s, i)
          ELSE IF IsLower(s[i]) THEN UpperChar(s[i]) ELSE <<s[i]>>)
         \o swapcase_from(s, i + 1)
swapcase(s) == swapcase_from(s, 1)

\* The characters of s turned to lower and upper case in turn: "".join(
\* c.upper() if i % 2 else c.lower() for i, c in enumerate(s)).
RECURSIVE alternate_from(_, _)
alternate_from(s, up) ==
    IF s = <<>> THEN <<>>
    ELSE (IF up THEN UpperChar(Head(s)) ELSE LowerChar(Head(s)))
         \o alternate_from(Tail(s), ~up)
alternate(s) == alternate_from(s, FALSE)

\* The response texts put to the test: every keyword as written, in upper
\* case, capitalized, in alternating case and with its first letter cut
\* off, texts without any keyword, and keywords written with a letter
\* outside ASCII (sharp s, long s, I with dot, dotless i, E acute), each
\* alone or inside a sentence.
ProbeWords ==
    UNION {{auth_keywords[k], upper(auth_keywords[k]),
            capitalize(auth_keywords[k]), alternate(auth_keywords[k]),
            Tail(auth_keywords[k])} : k \in 1..Len(auth_keywords)}
    \cup {<<>>, <<"D","o","n","e">>,
          <<"a","c","c","e","U+00DF">>,
          <<"U+017F","i","g","n"," ","i","n">>,
          <<"L","O","G","U+0130","N">>,
          <<"l","o","g","U+0131","n">>,
          <<"a","c","c","U+00C9","s","s">>,
          <<"U+212A","e","y">>,
          <<"a","u","t","U+1E96">>,
          <<"l","o","g","i","n"," ","O","U+03A3">>}
ProbeHeads == {<<>>, <<"N","o"," ">>}
ProbeTails == {<<>>, <<"!">>}
ProbeTexts ==
    {h \o w \o t : h \in ProbeHeads, w \in ProbeWords, t \in ProbeTails}
\* The same text with the case of its letters changed.
CaseVariants(text) == {upper(text), lower(text), swapcase(text), alternate(text)}

\* The shapes response.message can have around a text: a dict with a list
\* of blocks, something that is not a dict, a dict whose 'content' is not a
\* list.
ProbeMessages(text) ==
    { DictMessage(<<ToolUseBlock, TextBlock(text)>>),
      OtherMessage(text),
      DictOtherContent(<<"{">> \o text \o <<"}">>) }

InitDetect ==
    /\ InitProgram(Scripts)
    /\ \E text \in ProbeTexts : \E message \in ProbeMessages(text) :
          probe = [message |-> message, text |-> <<>>, variant |-> <<>>,
                   step |-> "input", result |-> FALSE,
                   variant_result |-> FALSE]

NoRequest ==
    UNCHANGED <<script, access_token, finished, queue, running, tpc, cpc,
                response, error, url_sent, plan, puts, got, in_order, own,
                stopped_by, first_plan, agent_calls, oauth_calls,
                finish_calls, late_put, acquired, raised_at, last_exchange,
                tool_log, early_break>>

\* response_text for the message.
extract ==
    /\ probe.step = "input"
    /\ probe' = [probe EXCEPT
                   !.step = "extracted",
                   !.text = extract_response_text(script, probe.message)]
    /\ NoRequest

\* needs_auth for the response text.
detect ==
    /\ probe.step = "extracted"
    /\ probe' = [probe EXCEPT !.step = "detected",
                              !.result = needs_authentication(probe.text)]
    /\ NoRequest

\* needs_auth for the same text in another letter case.
detect_variant ==
    /\ probe.step = "detected"
    /\ \E variant \in CaseVariants(probe.text) :
          probe' = [probe EXCEPT
                      !.step = "compared",
                      !.variant = variant,
                      !.variant_result = needs_authentication(variant)]
    /\ NoRequest

NextDetect == extract \/ detect \/ detect_variant

SpecDetect == InitDetect /\ [][NextDetect]_vars

\* ------------------------------------------------------- fair scheduling
\* The event loop runs some task or consumer that is ready, and every
\* external call (agent, OAuth helper) returns or raises.
Progress ==
    \E r \in Requests : agent_task(r) \/ stream(r) \/ await_task(r)

Fairness == WF_vars(Progress)

\* A task can run its next statement: it is about to be started by the
\* free loop, its OAuth helper can return or raise to the free loop, or it
\* owns the loop.
TaskReady(r) ==
    \/ tpc[r] \in {"start", "oauth_wait"} /\ running = 0
    \/ tpc[r] \notin {"none", "start", "oauth_wait", "done"} /\ Owns(r)

\* A consumer can take its next step: an item is there to remove, or the
\* task it awaits is done.
ConsumerReady(r) ==
    \/ cpc[r] = "get" /\ running = 0 /\ queue # <<>>
    \/ cpc[r] = "await_task" /\ running = 0 /\ tpc[r] = "done"

\* No task and no consumer can take a step, that is ~ENABLED Progress.
Quiescent == \A r \in Requests : ~TaskReady(r) /\ ~ConsumerReady(r)

SpecFair == Spec /\ Fairness

\* The most statements agent_task still has to run from where it stands.
TaskRank(pc, url) ==
    CASE pc = "none"        -> 13
      [] pc = "start"       -> 12
      [] pc = "call_agent"  -> 11
      [] pc = "check_auth"  -> 10
      [] pc = "oauth"       -> 9
      [] pc = "oauth_wait"  -> IF url THEN 7 ELSE 8
      [] pc = "auth_ok"     -> 6
      [] pc = "retry"       -> 5
      [] pc = "auth_except" -> 4
      [] pc = "put_result"  -> 3
      [] pc = "put_end"     -> 2
      [] pc = "except"      -> 2
      [] pc = "finally"     -> 1
      [] OTHER              -> 0

\* The steps stream_with_task still has to take besides removing items.
ConsumerRank(pc) ==
    CASE pc = "none"       -> 3
      [] pc = "get"        -> 2
      [] pc = "await_task" -> 1
      [] OTHER             -> 0

RECURSIVE SumRank(_)
SumRank(rs) ==
    IF rs = {} THEN 0
    ELSE LET r == CHOOSE x \in rs : TRUE
         IN 2 * TaskRank(tpc[r], url_sent[r]) + ConsumerRank(cpc[r])
            + SumRank(rs \ {r})

\* What is left to do: every statement of a task may add one item to the
\* queue, every item in the queue has to be removed.
Rank == SumRank(Requests) + Len(queue)

\* ------------------------------------------------------------ properties
Arrived(r) == tpc[r] # "none"
\* stream() has left its loop.
Terminated(r) == cpc[r] \in {"await_task", "done"}
TaskDone(r) == tpc[r] = "done"
Last(seq) == seq[Len(seq)]
Range(seq) == {seq[i] : i \in 1..Len(seq)}
NoNone(seq) == \A i \in 1..Len(seq) : seq[i] # None

\* The stream of request r has delivered, so far, a prefix of what r's
\* producer was given (no sentinel, nothing foreign, nothing twice or out of
\* order); once ended it has delivered all of it; and it ends once the
\* producer has finished and the queue is drained.
DeliversPlan(r) ==
    /\ in_order[r]
    /\ got[r] <= Len(first_plan[r])
    /\ Terminated(r) => /\ finish_calls[r] = 1
                        /\ puts[r] = first_plan[r]
                        /\ got[r] = Len(first_plan[r])
    /\ (TaskDone(r) /\ queue = <<>>) => Terminated(r)

\* C1 (as claimed): for one request on a StreamingQueue, whatever the items
\* put before the single finish, stream() yields exactly those items, once
\* each and in put order, then terminates; the sentinel is never yielded.
C1_AnyPutsAreDelivered ==
    \A r \in Requests : Arrived(r) => DeliversPlan(r)

\* C1 (amended): the same, for put calls whose items are not None.
C1_NonNonePutsAreDelivered ==
    \A r \in Requests :
        (Arrived(r) /\ NoNone(first_plan[r])) => DeliversPlan(r)

\* The scenario put("a"), put("b"), finish: both items yielded, stream ended.
C1_Witness ==
    /\ first_plan[1] = <<Str("a"), Str("b")>>
    /\ cpc[1] = "done"
    /\ got[1] = 2

\* C2: a request's stream() has terminated only if that request's task has
\* already called finish.
C2_NoEndBeforeOwnFinish ==
    \A r \in Requests : Terminated(r) => finish_calls[r] >= 1

\* C3: every item a request's consumer is handed, and the sentinel that ends
\* its stream, was put by that same request's task.
C3_ItemsReachOwnConsumer ==
    \A r \in Requests : own[r] /\ stopped_by[r] \in {0, r}

\* C4: on every path of agent_task finish() is called exactly once (never
\* twice, and once by the time the task is over), and the request puts
\* nothing after it.
C4_FinishExactlyOnceAndLast ==
    \A r \in Requests :
        /\ finish_calls[r] <= 1
        /\ TaskDone(r) <=> finish_calls[r] = 1
        /\ ~late_put[r]

\* A task that went through a failed exchange (and the callback's put) is
\* over, having called finish once.
C4_Witness ==
    \E r \in Requests :
        /\ TaskDone(r)
        /\ raised_at[r] = "oauth"
        /\ url_sent[r]
        /\ script = "github"
        /\ finish_calls[r] = 1

\* The items of the authorized path, with or without the authorization URL.
AuthorizedRun(r, with_url) ==
    <<Str("Begin agent execution"), Fmt("Authentication required for ", script)>>
    \o (IF with_url THEN <<Fmt(auth_url_text(script), "url")>> ELSE <<>>)
    \o <<Str("Authentication successful! Retrying"), response[r],
         Str("End agent execution")>>

\* Request r's exchange succeeded and its retried agent call returned.
Authorized(r) ==
    TaskDone(r) /\ acquired[r] # NoToken /\ raised_at[r] = "nowhere"

\* The consumer of r receives exactly the items seq, in order, and its stream
\* then terminates.
Receives(r, seq) ==
    /\ puts[r] = seq
    /\ in_order[r] /\ own[r]
    /\ Terminated(r) => got[r] = Len(seq)
    /\ queue = <<>> => Terminated(r)

\* C5 (as claimed): when the first response triggers authorization and the
\* exchange succeeds, the consumer receives Begin, the authentication-required
\* status, the authorization URL, "Authentication successful", the retried
\* call's result and End, in this order, and the stream terminates.
C5_AuthorizedRunWithUrl ==
    \A r \in Requests : Authorized(r) => Receives(r, AuthorizedRun(r, TRUE))

\* C5 (amended): the same, where the authorization URL item is present
\* exactly when the OAuth helper called on_auth_url back.
C5_AuthorizedRunUrlIfCalledBack ==
    \A r \in Requests :
        Authorized(r) => Receives(r, AuthorizedRun(r, url_sent[r]))

\* An authorized request with the URL called back has streamed its six items.
C5_Witness ==
    \E r \in Requests :
        /\ Authorized(r)
        /\ url_sent[r]
        /\ cpc[r] = "done"
        /\ got[r] = 6

\* C6: when the OAuth exchange raises, "Authentication failed: <message>" is
\* the last item the task puts, and the agent is not called again.
C6_AuthFailureIsTerminal ==
    \A r \in Requests :
        (TaskDone(r) /\ raised_at[r] = "oauth") =>
            /\ Last(puts[r]) = Fmt("Authentication failed: ", error[r])
            /\ agent_calls[r] = 1

\* C7: per request the OAuth helper is invoked at most once and the agent at
\* most twice; the second agent call happens only after this request acquired
\* a token, and has happened once the task of such a request is over.
C7_SingleRetry ==
    \A r \in Requests :
        /\ oauth_calls[r] <= 1
        /\ agent_calls[r] <= 2
        /\ agent_calls[r] = 2 => acquired[r] # NoToken
        /\ (TaskDone(r) /\ acquired[r] # NoToken) => agent_calls[r] = 2

\* A request that acquired a token is over after its second agent call.
C7_Witness ==
    \E r \in Requests :
        TaskDone(r) /\ acquired[r] # NoToken /\ agent_calls[r] = 2

\* C8: the token slot holds the token of the most recent successful exchange,
\* and None as long as no exchange has succeeded.
C8_SlotIsLatestExchange ==
    /\ access_token = last_exchange
    /\ (\A r \in Requests : acquired[r] = NoToken) => access_token = NoToken

\* Two requests have acquired different tokens, and the slot holds the one
\* of the later exchange.
C8_Witness ==
    \E r, s \in Requests :
        /\ acquired[r] # NoToken
        /\ acquired[s] # NoToken
        /\ acquired[r] # acquired[s]
        /\ access_token = acquired[s]

\* C9: a tool invocation that finds no token returns the "auth_required"
\* marker without an API call, and an API call is made only with a token set.
C9_NoTokenNoApiCall ==
    tool_log.called =>
        /\ ~Truthy(tool_log.token) =>
               (tool_log.auth_required /\ ~tool_log.api_call)
        /\ tool_log.api_call => Truthy(tool_log.token)

\* The tool has just been invoked with the slot empty.
C9_Witness ==
    /\ tool_log.called
    /\ tool_log.token = NoToken
    /\ tool_log.auth_required

\* C10: an exception of the OAuth exchange becomes the item "Authentication
\* failed: <message>", and an exception of the initial or the retried agent
\* call becomes the item "Error: <message>".
C10_ErrorsBecomeItems ==
    \A r \in Requests :
        TaskDone(r) =>
            /\ raised_at[r] = "oauth" =>
                   Fmt("Authentication failed: ", error[r]) \in Range(puts[r])
            /\ raised_at[r] \in {"call_agent", "retry"} =>
                   Fmt("Error: ", error[r]) \in Range(puts[r])

\* Two characters that are the same letter, whatever their case.
SameLetter(a, b) ==
    \/ a = b
    \/ UpperChar(a) = UpperChar(b)
    \/ LowerChar(a) = LowerChar(b)

\* The keyword stands somewhere in the text, letter for letter whatever
\* the case.
OccursIgnoringCase(text, keyword) ==
    \E i \in 0..Len(text) :
        /\ i + Len(keyword) <= Len(text)
        /\ \A j \in 1..Len(keyword) : SameLetter(text[i + j], keyword[j])

\* C11: the keyword test answers true exactly when one of the configured
\* keywords stands somewhere in the response text, whatever the case of the
\* letters, and answers the same for the text in any other letter case.
C11_KeywordAnywhereAnyCase ==
    /\ probe.step \in {"detected", "compared"} =>
           (probe.result <=>
               \E k \in 1..Len(auth_keywords) :
                   OccursIgnoringCase(probe.text, auth_keywords[k]))
    /\ probe.step = "compared" => probe.variant_result = probe.result

\* C12: in every request, a None-valued real item removed before finish has
\* been called for that request is yielded and does not end the stream.
C12_NoneBeforeOwnFinishIsYielded ==
    \A r \in Requests : ~early_break[r]

\* C13: when the stream handed back by agent_invocation has completed, the
\* request's task has finished; the task is awaited only after the drain
\* loop has removed a sentinel, whichever request enqueued it.
C13_StreamEndsAfterTask ==
    \A r \in Requests :
        /\ cpc[r] = "done" => TaskDone(r)
        /\ Terminated(r) => (stopped_by[r] # 0 /\ ~early_break[r])

\* A request's stream has completed after its loop ended on the sentinel of
\* the other request.
C13_Witness ==
    \E r \in Requests :
        /\ cpc[r] = "done"
        /\ stopped_by[r] \notin {0, r}
        /\ TaskDone(r)

\* C14: under fair scheduling every request that has arrived sees its
\* consumer remove a sentinel and its stream terminate, on every branch of
\* agent_task and for overlapping requests: every step brings the program
\* closer to the end, and whenever no task and no consumer can take a step,
\* every request that arrived has its stream terminated on a sentinel.
C14_EveryStreamTerminates ==
    /\ [][Rank' < Rank]_vars
    /\ [](Quiescent =>
             \A r \in Requests :
                 Arrived(r) => (cpc[r] = "done" /\ stopped_by[r] # 0))

\* Two overlapping requests have both ended, one of them after an
\* authorization and a retry, one of them on the other's sentinel.
C14_Witness ==
    /\ \A r \in Requests : cpc[r] = "done"
    /\ Quiescent
    /\ \E r \in Requests : oauth_calls[r] = 1 /\ agent_calls[r] = 2
    /\ \E r \in Requests : stopped_by[r] \notin {0, r}

\* C15: the agent call is a suspension point at which the consumer can run:
\* while the agent call of a request is in progress and an item is in the
\* queue, the consumer of that request is able to remove it.
C15_ConsumerRunsDuringAgentCall ==
    \A r \in Requests :
        (tpc[r] \in {"call_agent", "retry"} /\ cpc[r] = "get" /\ queue # <<>>)
            => ConsumerReady(r)

\* A value put by agent_task that reports an error.
IsErrorItem(v) ==
    v.tag = "str" /\ v.text \in {"Error: ", "Authentication failed: "}

\* C16: when the retried agent call, made after a successful token
\* acquisition, again answers that authorization is required, the request
\* puts a terminal error item, does not put that answer as an ordinary
\* result followed by "End agent execution", and attempts no further
\* authorization.
C16_SecondAuthRequestIsTerminalError ==
    \A r \in Requests :
        ( /\ TaskDone(r)
          /\ agent_calls[r] = 2
          /\ acquired[r] # NoToken
          /\ raised_at[r] = "nowhere"
          /\ needs_authentication(extract_response_text(script, response[r])) )
        => /\ \E i \in 1..Len(puts[r]) : IsErrorItem(puts[r][i])
           /\ Str("End agent execution") \notin Range(puts[r])
           /\ oauth_calls[r] <= 1

\* C17: the token slot is written without synchronisation: every successful
\* exchange of a request stores its token in the slot whatever the slot
\* holds, so that with two overlapping requests the token stored by one is
\* overwritten by the exchange of the other.
C17_ExchangeOverwritesSlot ==
    [][\A r \in Requests :
          (tpc[r] = "oauth_wait" /\ tpc'[r] = "auth_ok")
              => (access_token' = acquired'[r]
                  /\ (access_token # NoToken => access_token = last_exchange))]_vars

\* Request r has stored its token, and before r's stream has completed the
\* exchange of request s has replaced it by another.
C17_Witness ==
    \E r, s \in Requests :
        /\ r # s
        /\ acquired[r] # NoToken
        /\ acquired[s] # NoToken
        /\ access_token = acquired[s]
        /\ access_token # acquired[r]
        /\ cpc[r] # "done"
        /\ tpc[s] = "auth_ok"

\* C18: the tool invoked by a request's retried agent call reads the token
\* that this same request has acquired, whatever the other requests do: no
\* other exchange can come between the store and the retry.
C18_RetryReadsOwnToken ==
    (tool_log.called /\ tool_log.retry) =>
        /\ tool_log.token = acquired[tool_log.by]
        /\ tool_log.token # NoToken
        /\ tool_log.api_call

\* The retry of one request has just invoked the tool while the other
\* request, overlapping it, has acquired a different token.
C18_Witness ==
    /\ tool_log.called
    /\ tool_log.retry
    /\ \E s \in Requests :
          /\ s # tool_log.by
          /\ acquired[s] \notin {NoToken, acquired[tool_log.by]}
          /\ cpc[s] # "done"

\* C19: whenever every request that was started has completed (its task has
\* finished and its stream has returned), the module-level queue is empty:
\* no item and no sentinel is left for a later request.
C19_QueueEmptyWhenAllComplete ==
    (\A r \in Requests : Arrived(r) => (TaskDone(r) /\ cpc[r] = "done"))
        => queue = <<>>

\* Both requests have put items and completed, overlapping: the first ended
\* on the sentinel of the second, and nothing is left in the queue.
C19_Witness ==
    /\ \A r \in Requests : TaskDone(r) /\ cpc[r] = "done" /\ puts[r] # <<>>
    /\ stopped_by[1] = 2
    /\ queue = <<>>

====
